---------------------------- MODULE Spec2Model ----------------------------
(***************************************************************************)
(* A model of Simple-NumPy-ML: the strided-tensor engine of                *)
(* common/vector.py (shape arithmetic, sliding window views, dilation,     *)
(* correlation, pooling) and the layers of model/layer.py built on it.     *)
(*                                                                         *)
(* Tensors are modelled as NumPy holds them: a flat buffer (`data`), a     *)
(* `shape`, and `strides` counted in elements.  A view shares the buffer   *)
(* of its base and differs only in shape and strides, so an element of a   *)
(* view is read by computing its address in the buffer.  Element values    *)
(* are integers (exact arithmetic; floating rounding is not modelled).     *)
(* A call that raises a Python exception returns Raise(name of exception). *)
(***************************************************************************)
EXTENDS Integers, Sequences, FiniteSets, TLC

VARIABLES
    matrix,     \* vector engine: the tensor the engine's functions are applied to
    vpc,        \* vector engine: "idle", or "done" after a call
    call,       \* vector engine: the call made (function name and arguments)
    ret,        \* vector engine: what the call returned
    layer,      \* layers: the layer object (its geometry, its bias and weight)
    lpc,        \* layers: "idle", or "done" after a call of one of the layer's methods
    lcall,      \* layers: the call made (method name, arguments, the layer before it)
    lret,       \* layers: what the call returned
    network,    \* trainer: the Network object (its layers and their parameters)
    optimizer,  \* trainer: the StochasticGradientDescent object
    dataset,    \* trainer: the training set
    opc,        \* trainer: where the coordinating process is in the call in progress
    frame,      \* trainer: the call in progress and its local variables
    tasks,      \* trainer: the tasks handed to the worker pool and their results
    oret        \* trainer: what the last call returned

vecVars == <<matrix, vpc, call, ret>>
layerVars == <<layer, lpc, lcall, lret>>
trainVars == <<network, optimizer, dataset, opc, frame, tasks, oret>>
vars == <<matrix, vpc, call, ret, layer, lpc, lcall, lret,
          network, optimizer, dataset, opc, frame, tasks, oret>>

-----------------------------------------------------------------------------
(* Bounds of the model. *)

\* Largest extent of one dimension of the input matrix (kernels go one beyond).
MaxDim == 3
\* Largest stride.
MaxStride == 2
\* Largest padding.
MaxPad == 1

\* Ranks of the input matrix and of kernels / windows.
MatrixRanks == {1, 2}
\* Families of element values (see Val).
Seeds == {0, 1, 2}

-----------------------------------------------------------------------------
(* Results of calls: a value, or a raised exception. *)

Ok(v) == [ok |-> TRUE, err |-> "", val |-> v]
Raise(e) == [ok |-> FALSE, err |-> e, val |-> <<>>]

-----------------------------------------------------------------------------
(* Integer and sequence helpers. *)

Maximum(a, b) == IF a >= b THEN a ELSE b

RECURSIVE SeqSum(_)
SeqSum(s) == IF s = <<>> THEN 0 ELSE s[1] + SeqSum(Tail(s))

RECURSIVE SeqProd(_)
SeqProd(s) == IF s = <<>> THEN 1 ELSE s[1] * SeqProd(Tail(s))

RECURSIVE SeqMax(_)
SeqMax(s) == IF Len(s) = 1 THEN s[1] ELSE Maximum(s[1], SeqMax(Tail(s)))

\* Python's seq[:-n] and seq[-n:] for 1 <= n <= len(seq).
Lead(s, n) == SubSeq(s, 1, Len(s) - n)
Trail(s, n) == SubSeq(s, Len(s) - n + 1, Len(s))

\* All sequences of length n over the set S.
Tuples(n, S) == [1..n -> S]

-----------------------------------------------------------------------------
(* Tensors. *)

\* Strides (in elements) of a C-contiguous array of the given shape.
CStrides(shape) == [i \in 1..Len(shape) |-> SeqProd(SubSeq(shape, i + 1, Len(shape)))]

\* numpy.ndarray: a freshly allocated C-contiguous array holding `data`.
NewArray(shape, data, dtype) ==
    [shape |-> shape, strides |-> CStrides(shape), data |-> data, writeable |-> TRUE,
     dtype |-> dtype]

\* The dtype of the result of an arithmetic operation on two arrays (NumPy's type
\* promotion, for the dtypes that occur).
Promote(d1, d2) == IF d1 = d2 THEN d1 ELSE "float64"

\* Number of elements.
Size(shape) == SeqProd(shape)

\* numpy.unravel_index: the index tuple (0-based) of the n-th element (0-based, C order).
Unravel(n, shape) ==
    [i \in 1..Len(shape) |-> (n \div SeqProd(SubSeq(shape, i + 1, Len(shape)))) % shape[i]]

\* The address (0-based offset into the buffer) of the element at index tuple idx.
Addr(a, idx) == SeqSum([i \in 1..Len(idx) |-> idx[i] * a.strides[i]])

\* Whether an address lies inside the buffer.
InBuffer(a, addr) == addr >= 0 /\ addr < Len(a.data)

\* Reading an element.  A read outside the buffer is undefined behaviour: it is
\* reported by Faults and the value read is meaningless (0 here).
Load(a, idx) == IF InBuffer(a, Addr(a, idx)) THEN a.data[Addr(a, idx) + 1] ELSE 0

\* The index tuples of an array of the given shape, in C order.
Indices(shape) == [n \in 1..Size(shape) |-> Unravel(n - 1, shape)]

\* The addresses of the buffer an array (or view) can reach.
Addresses(a) == {Addr(a, Indices(a.shape)[n]) : n \in 1..Size(a.shape)}

\* Whether some element of the array lies outside its buffer.
Faults(a) == \E addr \in Addresses(a) : ~InBuffer(a, addr)

\* The elements of an array (or view) in C order: what numpy.ascontiguousarray gives.
Elements(a) == [n \in 1..Size(a.shape) |-> Load(a, Unravel(n - 1, a.shape))]

\* Element values of the inputs: family `seed`, n-th element (0-based).
\* Seed 0: all ones; seed 1: 1, 2, 3, ...; others: mixed signs with ties.
Val(seed, n) ==
    IF seed = 0 THEN 1
    ELSE IF seed = 1 THEN n + 1
    ELSE (((n + 1) * (n + 1) + seed * n) % (2 * seed + 3)) - seed

\* Kernel values: all ones for seed 0, otherwise the negated family.
KernelVal(seed, n) == IF seed = 0 THEN 1 ELSE 0 - Val(seed, n)

MakeMatrix(shape, seed) ==
    NewArray(shape, [n \in 1..Size(shape) |-> Val(seed, n - 1)], "int64")
MakeKernel(shape, seed) ==
    NewArray(shape, [n \in 1..Size(shape) |-> KernelVal(seed, n - 1)], "int64")

-----------------------------------------------------------------------------
(* NumPy broadcasting of 1-D shapes (strides, pads). *)

\* numpy.broadcast_to(shape_1d, nd)
broadcast_to(s, nd) ==
    IF Len(s) = nd THEN Ok(s)
    ELSE IF Len(s) = 1 THEN Ok([i \in 1..nd |-> s[1]])
    ELSE Raise("ValueError")

\* numpy.broadcast_arrays(a, b) of two 1-D arrays
broadcast_arrays(a, b) ==
    IF Len(a) = Len(b) THEN Ok(<<a, b>>)
    ELSE IF Len(a) = 1 THEN Ok(<<[i \in 1..Len(b) |-> a[1]], b>>)
    ELSE IF Len(b) = 1 THEN Ok(<<a, [i \in 1..Len(a) |-> b[1]]>>)
    ELSE Raise("ValueError")

-----------------------------------------------------------------------------
(* common/vector.py: shape arithmetic. *)

\* A faulty correlate_shape: the quotient is rounded up instead of down.
correlate_shape_ceil(matrix_shape, kernel_shape, stride_shape) ==
    IF Len(matrix_shape) < Len(kernel_shape) THEN Raise("AssertionError")
    ELSE
        LET nd == Len(kernel_shape)
            stride == broadcast_to(stride_shape, nd)
        IN  IF ~stride.ok THEN stride
            ELSE
                LET m == Trail(matrix_shape, nd)
                    correlate_size ==
                        [i \in 1..nd |->
                            Maximum(0 - ((kernel_shape[i] - m[i]) \div stride.val[i]) + 1, 0)]
                IN  Ok(Lead(matrix_shape, nd) \o correlate_size)

\* A faulty correlate_shape: the size is not clamped at zero.
correlate_shape_unclamped(matrix_shape, kernel_shape, stride_shape) ==
    IF Len(matrix_shape) < Len(kernel_shape) THEN Raise("AssertionError")
    ELSE
        LET nd == Len(kernel_shape)
            stride == broadcast_to(stride_shape, nd)
        IN  IF ~stride.ok THEN stride
            ELSE
                LET m == Trail(matrix_shape, nd)
                    correlate_size ==
                        [i \in 1..nd |-> ((m[i] - kernel_shape[i]) \div stride.val[i]) + 1]
                IN  Ok(Lead(matrix_shape, nd) \o correlate_size)

\* correlate_shape(matrix_shape, kernel_shape, stride_shape)
correlate_shape(matrix_shape, kernel_shape, stride_shape) ==
    IF Len(matrix_shape) < Len(kernel_shape) THEN Raise("AssertionError")
    ELSE
        LET nd == Len(kernel_shape)
            stride == broadcast_to(stride_shape, nd)
        IN  IF ~stride.ok THEN stride
            ELSE
                LET m == Trail(matrix_shape, nd)
                    correlate_size ==
                        [i \in 1..nd |->
                            Maximum(((m[i] - kernel_shape[i]) \div stride.val[i]) + 1, 0)]
                IN  Ok(Lead(matrix_shape, nd) \o correlate_size)


\* A faulty dilate_shape: the padding is counted on one side only.
dilate_shape_one_skirt(matrix_shape, stride_shape, pad_shape) ==
    IF Len(matrix_shape) < Len(stride_shape) THEN Raise("AssertionError")
    ELSE
        LET both == broadcast_arrays(stride_shape, pad_shape)
        IN  IF ~both.ok THEN both
            ELSE
                LET stride == both.val[1]
                    pad == both.val[2]
                    nd == Len(stride)
                    m == IF nd <= Len(matrix_shape) THEN Trail(matrix_shape, nd) ELSE matrix_shape
                    lead == IF nd <= Len(matrix_shape) THEN Lead(matrix_shape, nd) ELSE <<>>
                    mb == broadcast_to(m, nd)
                IN  IF ~mb.ok THEN mb
                    ELSE Ok(lead \o [i \in 1..nd |-> pad[i] + (mb.val[i] - 1) * stride[i] + 1])

\* dilate_shape(matrix_shape, stride_shape, pad_shape)
dilate_shape(matrix_shape, stride_shape, pad_shape) ==
    IF Len(matrix_shape) < Len(stride_shape) THEN Raise("AssertionError")
    ELSE
        LET both == broadcast_arrays(stride_shape, pad_shape)
        IN  IF ~both.ok THEN both
            ELSE
                LET stride == both.val[1]
                    pad == both.val[2]
                    nd == Len(stride)
                    \* matrix_shape[-nd:] and matrix_shape[:-nd]; a slice reaching before
                    \* the start of the tuple is cut at the start
                    m == IF nd <= Len(matrix_shape) THEN Trail(matrix_shape, nd) ELSE matrix_shape
                    lead == IF nd <= Len(matrix_shape) THEN Lead(matrix_shape, nd) ELSE <<>>
                    \* (matrix_shape[-nd:] - 1) * stride_shape broadcasts the two operands
                    mb == broadcast_to(m, nd)
                IN  IF ~mb.ok THEN mb
                    ELSE
                        LET skirt_size == [i \in 1..nd |-> pad[i] * 2]
                            dilate_size == [i \in 1..nd |-> (mb.val[i] - 1) * stride[i] + 1]
                        IN  Ok(lead \o [i \in 1..nd |-> skirt_size[i] + dilate_size[i]])

\* pool_shape(matrix_shape, kernel_shape, stride_shape)
pool_shape(matrix_shape, kernel_shape, stride_shape) ==
    correlate_shape(matrix_shape, kernel_shape, stride_shape)

-----------------------------------------------------------------------------
(* common/vector.py: views and the operations on them. *)

\* numpy.lib.stride_tricks.as_strided(x, shape, strides, writeable): a view of
\* x's buffer; asking for a writeable view of a read-only array gives a read-only one.
as_strided(x, shape, strides, writeable) ==
    IF \E i \in 1..Len(shape) : shape[i] < 0 THEN Raise("ValueError")
    ELSE Ok([shape |-> shape, strides |-> strides, data |-> x.data,
             writeable |-> IF writeable THEN x.writeable ELSE FALSE, dtype |-> x.dtype])

\* A faulty view_stride: the window positions advance by one element, whatever the
\* stride.
view_stride_unscaled(strides, stride, nd) ==
    Lead(strides, nd) \o Trail(strides, nd) \o Trail(strides, nd)

\* The strides of the view sliding_window_view builds: those of the leading dimensions,
\* then stride_shape[di] * matrix.strides[di] for each window position, then those of
\* the window itself.
view_stride(strides, stride, nd) ==
    Lead(strides, nd)
    \o [i \in 1..nd |-> stride[i] * strides[Len(strides) - nd + i]]
    \o Trail(strides, nd)

\* sliding_window_view(matrix, window_shape, stride_shape, is_writeable)
sliding_window_view(mat, window_shape, stride_shape, is_writeable) ==
    LET correlated == correlate_shape(mat.shape, window_shape, stride_shape)
    IN  IF ~correlated.ok THEN correlated
        ELSE
            LET nd == Len(window_shape)
                stride == broadcast_to(stride_shape, nd).val
                correlated_shape == correlated.val
                view_shape ==
                    Lead(correlated_shape, nd) \o Trail(correlated_shape, nd) \o window_shape
            IN  as_strided(mat, view_shape, view_stride(mat.strides, stride, nd),
                           is_writeable)

\* Python's range(start, stop, step) for step >= 1, as the indices a slice selects in a
\* dimension of extent `size` (slice.indices clips start and stop to 0..size).
SliceIndices(start, stop, step, size) ==
    LET lo == IF start > size THEN size ELSE start
        hi == IF stop > size THEN size ELSE IF stop < 0 THEN Maximum(stop + size, 0) ELSE stop
        count == IF hi > lo THEN (hi - lo + step - 1) \div step ELSE 0
    IN  [t \in 1..count |-> lo + (t - 1) * step]

\* Whether an array of shape src can be assigned to a region of shape dst (NumPy
\* broadcasting: dimensions are aligned at the right; an extent of 1 is repeated).
BroadcastsTo(src, dst) ==
    /\ Len(src) <= Len(dst)
    /\ \A j \in 1..Len(src) : src[j] = dst[Len(dst) - Len(src) + j] \/ src[j] = 1

\* The index into an array of shape src that supplies index e of the broadcast shape.
BroadcastIndex(e, src) ==
    [j \in 1..Len(src) |-> IF src[j] = 1 THEN 0 ELSE e[Len(e) - Len(src) + j]]

\* Faulty slices for dilate: they start at 0 instead of after the padding.
dilate_slices_unpadded(pad, size, step) ==
    [i \in 1..Len(step) |-> SliceIndices(0, size[i] - 2 * pad[i], step[i], size[i])]

\* Faulty slices for dilate: as many places as the slice has, but next to each other.
dilate_slices_contiguous(pad, size, step) ==
    [i \in 1..Len(step) |->
        [t \in 1..Len(SliceIndices(pad[i], size[i] - pad[i], step[i], size[i])) |->
            pad[i] + t - 1]]

\* The slices dilate assigns through: slice(pd, sz - pd, st) per dimension.
dilate_slices(pad, size, step) ==
    [i \in 1..Len(step) |-> SliceIndices(pad[i], size[i] - pad[i], step[i], size[i])]

\* dilate(matrix, stride_shape, pad_shape)
dilate(mat, stride_shape, pad_shape) ==
    LET dilated == dilate_shape(mat.shape, stride_shape, pad_shape)
    IN  IF ~dilated.ok THEN dilated
        ELSE
            LET dilated_shape == dilated.val
                both == broadcast_arrays(stride_shape, pad_shape).val
                step == both[1]
                pad == both[2]
                nd == Len(step)
                size == Trail(dilated_shape, nd)
                slices == dilate_slices(pad, size, step)
                \* dilated_matrix[..., *slices]: the region written to
                nlead == Len(dilated_shape) - nd
                region_shape == Lead(dilated_shape, nd) \o [i \in 1..nd |-> Len(slices[i])]
                zeros == NewArray(dilated_shape, [n \in 1..Size(dilated_shape) |-> 0], mat.dtype)
                \* where the region's element r lies in the dilated matrix
                Target(r) == [j \in 1..Len(dilated_shape) |->
                                 IF j <= nlead THEN r[j] ELSE slices[j - nlead][r[j] + 1]]
                writes == [n \in 1..Size(region_shape) |->
                              LET r == Unravel(n - 1, region_shape)
                              IN  <<Addr(zeros, Target(r)) + 1,
                                    Load(mat, BroadcastIndex(r, mat.shape))>>]
                written == {writes[n][1] : n \in 1..Len(writes)}
                \* later writes win (the regions written never repeat an address)
                Last(a) == CHOOSE n \in 1..Len(writes) :
                              /\ writes[n][1] = a
                              /\ \A k \in 1..Len(writes) : writes[k][1] = a => k <= n
                dilated_matrix ==
                    [zeros EXCEPT !.data = [a \in 1..Size(dilated_shape) |->
                        IF a \in written THEN writes[Last(a)][2] ELSE 0]]
            IN  IF \E i \in 1..Len(dilated_shape) : dilated_shape[i] < 0
                THEN Raise("ValueError")
                ELSE IF ~BroadcastsTo(mat.shape, region_shape) THEN Raise("ValueError")
                ELSE Ok(dilated_matrix)

\* numpy.einsum('...ab,...ab->...', a, b) with nd subscripts: the inner product over
\* the last nd dimensions, the leading ones broadcast against each other.
einsum_correlation(nd, a, b) ==
    LET ea == Lead(a.shape, nd)
        eb == Lead(b.shape, nd)
        rank == Maximum(Len(ea), Len(eb))
        Ext(es, j) == IF j <= rank - Len(es) THEN 1 ELSE es[j - (rank - Len(es))]
        compatible == /\ \A j \in 1..rank :
                            Ext(ea, j) = Ext(eb, j) \/ Ext(ea, j) = 1 \/ Ext(eb, j) = 1
                      /\ Trail(a.shape, nd) = Trail(b.shape, nd)
        out_shape == [j \in 1..rank |-> IF Ext(ea, j) = 1 THEN Ext(eb, j) ELSE Ext(ea, j)]
        k_shape == Trail(a.shape, nd)
        Dot(e) == SeqSum([kn \in 1..Size(k_shape) |->
                      LET k == Unravel(kn - 1, k_shape)
                      IN  Load(a, BroadcastIndex(e, ea) \o k)
                          * Load(b, BroadcastIndex(e, eb) \o k)])
    IN  IF ~compatible THEN Raise("ValueError")
        ELSE Ok(NewArray(out_shape,
                         [n \in 1..Size(out_shape) |-> Dot(Unravel(n - 1, out_shape))],
                         Promote(a.dtype, b.dtype)))

\* ndarray.reshape(shape) of a C-contiguous array
reshape(a, shape) ==
    IF Size(shape) # Size(a.shape) THEN Raise("ValueError")
    ELSE Ok(NewArray(shape, Elements(a), a.dtype))

\* A faulty correlate: the kernel is applied reversed (a convolution).
correlate_flipped(mat, kernel, stride_shape, num_kernel_dims) ==
    LET nd == IF num_kernel_dims = 0 THEN Len(kernel.shape) ELSE num_kernel_dims
    IN  IF nd > Len(kernel.shape) THEN Raise("AssertionError")
        ELSE
            LET strided_view == sliding_window_view(mat, Trail(kernel.shape, nd),
                                                    stride_shape, FALSE)
                flipped == [kernel EXCEPT !.data =
                               [n \in 1..Len(kernel.data) |->
                                   kernel.data[Len(kernel.data) + 1 - n]]]
                kernel_view == reshape(flipped, Lead(kernel.shape, nd)
                                                \o [i \in 1..nd |-> 1]
                                                \o Trail(kernel.shape, nd))
            IN  IF ~strided_view.ok THEN strided_view
                ELSE einsum_correlation(nd, strided_view.val, kernel_view.val)

\* correlate(matrix, kernel, stride_shape, num_kernel_dims); num_kernel_dims = 0 stands
\* for None
correlate(mat, kernel, stride_shape, num_kernel_dims) ==
    LET nd == IF num_kernel_dims = 0 THEN Len(kernel.shape) ELSE num_kernel_dims
    IN  IF nd > Len(kernel.shape) THEN Raise("AssertionError")
        ELSE
            LET strided_view == sliding_window_view(mat, Trail(kernel.shape, nd),
                                                    stride_shape, FALSE)
                kernel_view == reshape(kernel, Lead(kernel.shape, nd)
                                               \o [i \in 1..nd |-> 1]
                                               \o Trail(kernel.shape, nd))
            IN  IF ~strided_view.ok THEN strided_view
                ELSE
                    LET correlated == einsum_correlation(nd, strided_view.val, kernel_view.val)
                    IN  IF ~correlated.ok THEN correlated
                        ELSE IF correlated.val.shape # Lead(strided_view.val.shape, nd)
                        THEN Raise("AssertionError")
                        ELSE correlated

\* The elements of the window at position e of a sliding window view, in C order.
Window(view, nd, e) ==
    LET w_shape == Trail(view.shape, nd)
    IN  [kn \in 1..Size(w_shape) |-> Load(view, e \o Unravel(kn - 1, w_shape))]

\* A faulty pool: a mode it does not know is taken for MAX.
pool_default_max(mat, kernel_shape, stride_shape, mode) ==
    LET nd == Len(kernel_shape)
        strided_view == sliding_window_view(mat, kernel_shape, stride_shape, FALSE)
    IN  IF ~strided_view.ok THEN strided_view
        ELSE
            LET view == strided_view.val
                out_shape == Lead(view.shape, nd)
            IN  IF mode = "AVERAGE"
                THEN Ok(NewArray(out_shape,
                        [n \in 1..Size(out_shape) |->
                            LET w == Window(view, nd, Unravel(n - 1, out_shape))
                            IN  [num |-> SeqSum(w), den |-> Len(w)]], "float64"))
                ELSE Ok(NewArray(out_shape,
                        [n \in 1..Size(out_shape) |->
                            SeqMax(Window(view, nd, Unravel(n - 1, out_shape)))],
                        mat.dtype))

\* pool(matrix, kernel_shape, stride_shape, mode).  A mean is kept exactly, as the
\* pair [num, den] of the sum and the number of elements it is divided by.
pool(mat, kernel_shape, stride_shape, mode) ==
    LET nd == Len(kernel_shape)
        strided_view == sliding_window_view(mat, kernel_shape, stride_shape, FALSE)
    IN  IF ~strided_view.ok THEN strided_view
        ELSE
            LET view == strided_view.val
                out_shape == Lead(view.shape, nd)
                Pooled(Reduce(_), dtype) ==
                    NewArray(out_shape,
                             [n \in 1..Size(out_shape) |->
                                 Reduce(Window(view, nd, Unravel(n - 1, out_shape)))],
                             dtype)
                Max(w) == SeqMax(w)
                Mean(w) == [num |-> SeqSum(w), den |-> Len(w)]
            IN  IF mode = "MAX" THEN Ok(Pooled(Max, mat.dtype))
                ELSE IF mode = "AVERAGE"
                THEN Ok(Pooled(Mean, IF mat.dtype = "float32" THEN "float32" ELSE "float64"))
                ELSE Raise("ValueError")

-----------------------------------------------------------------------------
(* The vector engine under test: a matrix is drawn, and each step applies one *)
(* function of common/vector.py to it with arguments drawn from small sets.   *)

\* Shapes of the given ranks with extents 1..n.
Shapes(ranks, n) == UNION {Tuples(r, 1..n) : r \in ranks}

MatrixShapes == Shapes(MatrixRanks, MaxDim)
\* Kernels and windows may exceed the matrix by one.
KernelShapes == Shapes(MatrixRanks, MaxDim + 1)
StrideShapes == Shapes(MatrixRanks, MaxStride)
PadShapes == UNION {Tuples(r, 0..MaxPad) : r \in MatrixRanks}
PoolModes == {"MAX", "AVERAGE", "NONE"}

NoCall == [fn |-> "none"]
NoRet == Raise("none")
NoLayer == [kind |-> "none"]
NoMatrix == NewArray(<<0>>, <<>>, "float64")

\* No layer has been constructed.
LayersOff ==
    /\ layer = NoLayer
    /\ lpc = "off"
    /\ lcall = NoCall
    /\ lret = NoRet

\* The trainer is not in use.
TrainOff ==
    /\ network = NoLayer
    /\ optimizer = NoLayer
    /\ dataset = NoLayer
    /\ opc = "off"
    /\ frame = NoCall
    /\ tasks = <<>>
    /\ oret = NoRet

VecInit ==
    /\ \E shape \in MatrixShapes, seed \in Seeds : matrix = MakeMatrix(shape, seed)
    /\ vpc = "idle"
    /\ call = NoCall
    /\ ret = NoRet
    /\ LayersOff
    /\ TrainOff

CallCorrelateShape ==
    /\ vpc = "idle"
    /\ \E kernel_shape \in KernelShapes, stride_shape \in StrideShapes :
        /\ call' = [fn |-> "correlate_shape", kernel_shape |-> kernel_shape,
                    stride_shape |-> stride_shape]
        /\ ret' = correlate_shape(matrix.shape, kernel_shape, stride_shape)
    /\ vpc' = "done"
    /\ UNCHANGED <<matrix, layerVars, trainVars>>

CallDilateShape ==
    /\ vpc = "idle"
    /\ \E stride_shape \in StrideShapes, pad_shape \in PadShapes :
        /\ call' = [fn |-> "dilate_shape", stride_shape |-> stride_shape,
                    pad_shape |-> pad_shape]
        /\ ret' = dilate_shape(matrix.shape, stride_shape, pad_shape)
    /\ vpc' = "done"
    /\ UNCHANGED <<matrix, layerVars, trainVars>>

CallSlidingWindowView ==
    /\ vpc = "idle"
    /\ \E window_shape \in KernelShapes, stride_shape \in StrideShapes,
          is_writeable \in BOOLEAN :
        /\ call' = [fn |-> "sliding_window_view", window_shape |-> window_shape,
                    stride_shape |-> stride_shape, is_writeable |-> is_writeable]
        /\ ret' = sliding_window_view(matrix, window_shape, stride_shape, is_writeable)
    /\ vpc' = "done"
    /\ UNCHANGED <<matrix, layerVars, trainVars>>

CallDilate ==
    /\ vpc = "idle"
    /\ \E stride_shape \in StrideShapes, pad_shape \in PadShapes :
        /\ call' = [fn |-> "dilate", matrix |-> matrix, stride_shape |-> stride_shape,
                    pad_shape |-> pad_shape]
        /\ ret' = dilate(matrix, stride_shape, pad_shape)
    /\ vpc' = "done"
    /\ UNCHANGED <<matrix, layerVars, trainVars>>

CallCorrelate ==
    /\ vpc = "idle"
    /\ \E kernel_shape \in KernelShapes, seed \in Seeds, stride_shape \in StrideShapes :
        /\ call' = [fn |-> "correlate", kernel |-> MakeKernel(kernel_shape, seed),
                    stride_shape |-> stride_shape]
        /\ ret' = correlate(matrix, MakeKernel(kernel_shape, seed), stride_shape, 0)
    /\ vpc' = "done"
    /\ UNCHANGED <<matrix, layerVars, trainVars>>

CallPool ==
    /\ vpc = "idle"
    /\ \E kernel_shape \in KernelShapes, stride_shape \in StrideShapes, mode \in PoolModes :
        /\ call' = [fn |-> "pool", kernel_shape |-> kernel_shape,
                    stride_shape |-> stride_shape, mode |-> mode]
        /\ ret' = pool(matrix, kernel_shape, stride_shape, mode)
    /\ vpc' = "done"
    /\ UNCHANGED <<matrix, layerVars, trainVars>>

\* The caller takes the result; the next call may follow.
VecReturn ==
    /\ vpc = "done"
    /\ vpc' = "idle"
    /\ call' = NoCall
    /\ ret' = NoRet
    /\ UNCHANGED <<matrix, layerVars, trainVars>>

VecNext ==
    \/ CallCorrelateShape
    \/ CallDilateShape
    \/ CallSlidingWindowView
    \/ CallDilate
    \/ CallCorrelate
    \/ CallPool
    \/ VecReturn

SpecVector == VecInit /\ [][VecNext]_vars

-----------------------------------------------------------------------------
(* Vocabulary of the properties of the vector engine. *)

\* The flat (C order) position of index tuple idx in an array of the given shape.
RECURSIVE Ravel(_, _)
Ravel(idx, shape) ==
    IF idx = <<>> THEN 0
    ELSE idx[Len(idx)] + shape[Len(shape)] * Ravel(Lead(idx, 1), Lead(shape, 1))

\* The element of the input matrix at index tuple idx.
MatrixAt(idx) == matrix.data[Ravel(idx, matrix.shape) + 1]

\* The stride of the t-th kernel dimension, a one-element stride being repeated.
StrideAt(stride_shape, t) == IF Len(stride_shape) = 1 THEN stride_shape[1] ELSE stride_shape[t]

\* A call whose kernel (or window) and stride fit the matrix: the kernel has no more
\* dimensions than the matrix and the stride has one entry, or one per kernel dimension.
KernelFits(kernel_shape, stride_shape) ==
    /\ Len(kernel_shape) <= Len(matrix.shape)
    /\ Len(stride_shape) \in {1, Len(kernel_shape)}

\* The extent of the matrix dimension the t-th kernel dimension is aligned with.
AlignedDim(kernel_shape, t) == matrix.shape[Len(matrix.shape) - Len(kernel_shape) + t]

\* r = floor((m - k) / s) + 1, said without division.
IsFloorSize(r, m, k, s) == (r - 1) * s <= m - k /\ m - k < r * s

-----------------------------------------------------------------------------
(* C1: for a kernel with no more dimensions than the matrix and no larger than it *)
(* in any dimension, and strides >= 1 (one stride being repeated per dimension),  *)
(* correlate_shape returns the matrix shape with every kernel-aligned trailing    *)
(* dimension m replaced by floor((m - k) / s) + 1 and the leading dimensions      *)
(* unchanged.                                                                     *)
C1_CorrelateShapeFormula ==
    (/\ call.fn = "correlate_shape"
     /\ KernelFits(call.kernel_shape, call.stride_shape)
     /\ \A t \in 1..Len(call.kernel_shape) :
            call.kernel_shape[t] <= AlignedDim(call.kernel_shape, t))
    => LET nd == Len(call.kernel_shape)
           nlead == Len(matrix.shape) - nd
       IN  /\ ret.ok
           /\ Len(ret.val) = Len(matrix.shape)
           /\ \A j \in 1..nlead : ret.val[j] = matrix.shape[j]
           /\ \A t \in 1..nd :
                IsFloorSize(ret.val[nlead + t], AlignedDim(call.kernel_shape, t),
                            call.kernel_shape[t], StrideAt(call.stride_shape, t))

\* C1's case: a leading dimension is passed through and a stride that does not divide
\* m - k rounds down.
C1_Witness ==
    /\ call.fn = "correlate_shape"
    /\ ret.ok
    /\ Len(call.kernel_shape) < Len(matrix.shape)
    /\ call.kernel_shape[1] <= AlignedDim(call.kernel_shape, 1)
    /\ (AlignedDim(call.kernel_shape, 1) - call.kernel_shape[1])
            % StrideAt(call.stride_shape, 1) # 0
    /\ ret.val[1] = matrix.shape[1]

(* C2: whenever a kernel dimension exceeds the matrix dimension it is aligned    *)
(* with, correlate_shape returns exactly zero in that dimension, for any stride  *)
(* >= 1, and no size it returns is negative.                                      *)
C2_CorrelateShapeClamped ==
    (/\ call.fn = "correlate_shape"
     /\ KernelFits(call.kernel_shape, call.stride_shape))
    => LET nd == Len(call.kernel_shape)
           nlead == Len(matrix.shape) - nd
       IN  /\ ret.ok
           /\ \A j \in 1..Len(ret.val) : ret.val[j] >= 0
           /\ \A t \in 1..nd :
                call.kernel_shape[t] > AlignedDim(call.kernel_shape, t)
                    => ret.val[nlead + t] = 0

\* C2's case: the kernel exceeds the matrix by more than the stride, where the
\* unclamped quotient is negative.
C2_Witness ==
    /\ call.fn = "correlate_shape"
    /\ ret.ok
    /\ \E t \in 1..Len(call.kernel_shape) :
        /\ call.kernel_shape[t] - AlignedDim(call.kernel_shape, t)
                > StrideAt(call.stride_shape, t)
        /\ ret.val[Len(matrix.shape) - Len(call.kernel_shape) + t] = 0

(* C3: for a 2-D matrix, a 2-D kernel no larger than the matrix and a stride      *)
(* (sy, sx) >= 1, correlate returns an array of the shape correlate_shape gives   *)
(* whose element [i, j] is the sum over the kernel positions (a, b) of            *)
(* matrix[i*sy + a, j*sx + b] * kernel[a, b]: the kernel is not flipped.          *)
C3_Correlate2D ==
    (/\ call.fn = "correlate"
     /\ Len(matrix.shape) = 2
     /\ Len(call.kernel.shape) = 2
     /\ Len(call.stride_shape) \in {1, 2}
     /\ \A t \in 1..2 : call.kernel.shape[t] <= matrix.shape[t])
    => LET kh == call.kernel.shape[1]
           kw == call.kernel.shape[2]
           sy == StrideAt(call.stride_shape, 1)
           sx == StrideAt(call.stride_shape, 2)
           KernelAt(a, b) == call.kernel.data[a * kw + b + 1]
           Expected(i, j) ==
               SeqSum([n \in 1..(kh * kw) |->
                   LET a == (n - 1) \div kw
                       b == (n - 1) % kw
                   IN  MatrixAt(<<i * sy + a, j * sx + b>>) * KernelAt(a, b)])
       IN  /\ ret.ok
           /\ ret.val.shape = correlate_shape(matrix.shape, call.kernel.shape,
                                              call.stride_shape).val
           /\ Len(ret.val.data) = ret.val.shape[1] * ret.val.shape[2]
           /\ \A i \in 0..(ret.val.shape[1] - 1), j \in 0..(ret.val.shape[2] - 1) :
                ret.val.data[i * ret.val.shape[2] + j + 1] = Expected(i, j)

\* C3's case, the example of the specification:
\* correlate([[1,2,3],[4,5,6],[7,8,9]], [[-1,-2]], stride=(2,1)) = [[-5,-8],[-23,-26]].
C3_Witness ==
    /\ call.fn = "correlate"
    /\ matrix.shape = <<3, 3>>
    /\ matrix.data = <<1, 2, 3, 4, 5, 6, 7, 8, 9>>
    /\ call.kernel.shape = <<1, 2>>
    /\ call.kernel.data = <<0 - 1, 0 - 2>>
    /\ call.stride_shape = <<2, 1>>
    /\ ret.ok
    /\ ret.val.shape = <<2, 2>>
    /\ ret.val.data = <<0 - 5, 0 - 8, 0 - 23, 0 - 26>>

(* C4: when the kernel is larger than the matrix in every trailing dimension,     *)
(* correlate returns, for any stride >= 1, an empty array whose correlated        *)
(* dimensions are all of size zero; it does not fail and reads no element of the  *)
(* matrix (the view it reads through reaches no address).                         *)
C4_CorrelateEmpty ==
    (/\ call.fn = "correlate"
     /\ KernelFits(call.kernel.shape, call.stride_shape)
     /\ \A t \in 1..Len(call.kernel.shape) :
            call.kernel.shape[t] > AlignedDim(call.kernel.shape, t))
    => LET nd == Len(call.kernel.shape)
           nlead == Len(matrix.shape) - nd
           view == sliding_window_view(matrix, call.kernel.shape, call.stride_shape, FALSE)
       IN  /\ ret.ok
           /\ Len(ret.val.shape) = Len(matrix.shape)
           /\ \A j \in 1..nlead : ret.val.shape[j] = matrix.shape[j]
           /\ \A t \in 1..nd : ret.val.shape[nlead + t] = 0
           /\ ret.val.data = <<>>
           /\ view.ok
           /\ Addresses(view.val) = {}

\* C4's case: a 2-D kernel larger than the 2-D matrix in both dimensions, by more than
\* the stride, gives an array of shape (0, 0).
C4_Witness ==
    /\ call.fn = "correlate"
    /\ Len(matrix.shape) = 2
    /\ Len(call.kernel.shape) = 2
    /\ \A t \in 1..2 : call.kernel.shape[t] - matrix.shape[t] > StrideAt(call.stride_shape, t)
    /\ ret.ok
    /\ ret.val.shape = <<0, 0>>
    /\ ret.val.data = <<>>

-----------------------------------------------------------------------------
(* Vocabulary of the properties of dilation, views and pooling. *)

\* A dilation whose stride and pad fit the matrix: neither has more dimensions than the
\* matrix, and they have the same length or one of them has one entry.
DilationFits(stride_shape, pad_shape) ==
    /\ Len(stride_shape) <= Len(matrix.shape)
    /\ Len(pad_shape) <= Len(matrix.shape)
    /\ Len(stride_shape) = Len(pad_shape) \/ Len(stride_shape) = 1 \/ Len(pad_shape) = 1

\* The number of dimensions a dilation works on.
DilationDims(stride_shape, pad_shape) == Maximum(Len(stride_shape), Len(pad_shape))

\* The pad of the t-th dilated dimension, a one-element pad being repeated.
PadAt(pad_shape, t) == IF Len(pad_shape) = 1 THEN pad_shape[1] ELSE pad_shape[t]

\* Whether idx is an index tuple of an array of the given shape.
IsIndex(idx, shape) ==
    /\ Len(idx) = Len(shape)
    /\ \A t \in 1..Len(idx) : idx[t] >= 0 /\ idx[t] < shape[t]

\* The element at index tuple idx of a C-contiguous array.
ElementAt(a, idx) == a.data[Ravel(idx, a.shape) + 1]

\* The matrix index under window position i (the last nd entries of e, after the
\* leading dimensions) and in-window offset w: (leading..., i1*s1 + w1, ..., in*sn + wn).
UnderWindow(e, w, stride_shape) ==
    LET nd == Len(w)
        nlead == Len(e) - nd
    IN  [t \in 1..Len(e) |->
            IF t <= nlead THEN e[t]
            ELSE e[t] * StrideAt(stride_shape, t - nlead) + w[t - nlead]]

\* The matrix elements in the window at position e, as a set and as a sum.
WindowValues(e, window_shape, stride_shape) ==
    {MatrixAt(UnderWindow(e, Unravel(n - 1, window_shape), stride_shape)) :
        n \in 1..Size(window_shape)}
WindowSum(e, window_shape, stride_shape) ==
    SeqSum([n \in 1..Size(window_shape) |->
        MatrixAt(UnderWindow(e, Unravel(n - 1, window_shape), stride_shape))])

-----------------------------------------------------------------------------
(* C5: for a stride >= 1 and a pad >= 0 that fit the matrix (stride and pad being *)
(* broadcast against each other), dilate_shape returns the matrix shape with each *)
(* trailing dimension m replaced by pad*2 + (m-1)*stride + 1, that is m elements, *)
(* stride-1 gaps between neighbours and pad elements on either side, and the      *)
(* leading dimensions unchanged.                                                  *)
C5_DilateShapeFormula ==
    (/\ call.fn = "dilate_shape"
     /\ DilationFits(call.stride_shape, call.pad_shape))
    => LET nd == DilationDims(call.stride_shape, call.pad_shape)
           nlead == Len(matrix.shape) - nd
       IN  /\ ret.ok
           /\ Len(ret.val) = Len(matrix.shape)
           /\ \A j \in 1..nlead : ret.val[j] = matrix.shape[j]
           /\ \A t \in 1..nd :
                LET m == matrix.shape[nlead + t]
                    st == StrideAt(call.stride_shape, t)
                    pd == PadAt(call.pad_shape, t)
                IN  /\ ret.val[nlead + t] = pd * 2 + (m - 1) * st + 1
                    /\ ret.val[nlead + t] = m + (m - 1) * (st - 1) + pd + pd

\* C5's case: a padded dilation with a stride above 1 of a matrix with a leading
\* dimension, the pad (or the stride) being broadcast.
C5_Witness ==
    /\ call.fn = "dilate_shape"
    /\ ret.ok
    /\ Len(matrix.shape) = 2
    /\ DilationDims(call.stride_shape, call.pad_shape) = 1
    /\ matrix.shape[2] > 1
    /\ call.stride_shape[1] > 1
    /\ call.pad_shape[1] > 0
    /\ ret.val[1] = matrix.shape[1]
    /\ ret.val[2] > matrix.shape[2] + 2

(* C6: for a stride >= 1 and a pad >= 0 that fit the matrix, dilate returns an    *)
(* array of the shape dilate_shape gives in which the element at trailing         *)
(* position pad + i*stride (per dimension) is matrix[i], for every index i of the *)
(* matrix, and every other element is zero; the matrix passed is left as it was.  *)
C6_Dilate ==
    (/\ call.fn = "dilate"
     /\ DilationFits(call.stride_shape, call.pad_shape))
    => LET nd == DilationDims(call.stride_shape, call.pad_shape)
           nlead == Len(matrix.shape) - nd
           St(t) == StrideAt(call.stride_shape, t)
           Pd(t) == PadAt(call.pad_shape, t)
           \* where matrix index i lands
           Landing(i) == [t \in 1..Len(i) |->
                            IF t <= nlead THEN i[t]
                            ELSE Pd(t - nlead) + i[t] * St(t - nlead)]
           landings == {Landing(Unravel(n - 1, matrix.shape)) : n \in 1..Size(matrix.shape)}
       IN  /\ ret.ok
           /\ ret.val.shape = dilate_shape(matrix.shape, call.stride_shape,
                                           call.pad_shape).val
           /\ Len(ret.val.data) = Size(ret.val.shape)
           /\ \A n \in 1..Size(matrix.shape) :
                LET i == Unravel(n - 1, matrix.shape)
                IN  /\ IsIndex(Landing(i), ret.val.shape)
                    /\ ElementAt(ret.val, Landing(i)) = MatrixAt(i)
           /\ \A n \in 1..Size(ret.val.shape) :
                Unravel(n - 1, ret.val.shape) \notin landings => ret.val.data[n] = 0
           /\ matrix = call.matrix

\* C6's case: a 2-D matrix dilated in both dimensions with a stride above 1 and a pad:
\* its last element lands before the padding and zeros lie between the elements.
C6_Witness ==
    /\ call.fn = "dilate"
    /\ ret.ok
    /\ matrix.shape = <<2, 3>>
    /\ matrix.data = <<1, 2, 3, 4, 5, 6>>
    /\ call.stride_shape = <<2, 2>>
    /\ call.pad_shape = <<1>>
    /\ ret.val.shape = <<5, 7>>
    /\ ret.val.data = <<0, 0, 0, 0, 0, 0, 0,
                        0, 1, 0, 2, 0, 3, 0,
                        0, 0, 0, 0, 0, 0, 0,
                        0, 4, 0, 5, 0, 6, 0,
                        0, 0, 0, 0, 0, 0, 0>>

(* C7: for a window and a stride that fit the matrix, sliding_window_view returns *)
(* a view on the matrix's own buffer of shape (leading dimensions, correlate_shape *)
(* trailing dimensions, window_shape) whose element at window position (i1..in)   *)
(* and in-window offset (w1..wn) is the matrix element at trailing index          *)
(* (i1*s1 + w1, ..., in*sn + wn); the view is read-only unless is_writeable is    *)
(* passed as true.                                                                *)
C7_SlidingWindowView ==
    (/\ call.fn = "sliding_window_view"
     /\ KernelFits(call.window_shape, call.stride_shape))
    => LET nd == Len(call.window_shape)
           correlated == correlate_shape(matrix.shape, call.window_shape,
                                         call.stride_shape).val
       IN  /\ ret.ok
           /\ ret.val.shape = Lead(matrix.shape, nd) \o Trail(correlated, nd)
                              \o call.window_shape
           /\ ret.val.data = matrix.data
           /\ \A n \in 1..Size(ret.val.shape) :
                LET idx == Unravel(n - 1, ret.val.shape)
                    under == UnderWindow(Lead(idx, nd), Trail(idx, nd), call.stride_shape)
                IN  /\ IsIndex(under, matrix.shape)
                    /\ InBuffer(ret.val, Addr(ret.val, idx))
                    /\ Load(ret.val, idx) = MatrixAt(under)
           /\ ~call.is_writeable => ~ret.val.writeable

\* C7's case: a read-only view with overlapping 2-D windows placed at a stride above 1
\* over a matrix of distinct elements.
C7_Witness ==
    /\ call.fn = "sliding_window_view"
    /\ ret.ok
    /\ matrix.shape = <<3, 3>>
    /\ matrix.data = <<1, 2, 3, 4, 5, 6, 7, 8, 9>>
    /\ call.window_shape = <<2, 1>>
    /\ call.stride_shape = <<1, 2>>
    /\ ~call.is_writeable
    /\ ~ret.val.writeable
    /\ ret.val.shape = <<2, 2, 2, 1>>
    /\ Elements(ret.val) = <<1, 4, 3, 6, 4, 7, 6, 9>>

(* C8: for a pool kernel and a stride that fit the matrix, pool returns an array  *)
(* of the shape pool_shape gives (correlate_shape with the pool kernel and        *)
(* stride) whose element at each output position is the maximum (mode MAX) or the *)
(* arithmetic mean (mode AVERAGE) of the matrix elements in that position's       *)
(* window; with any other mode it raises an error and returns no value.           *)
C8_Pool ==
    call.fn = "pool"
    => /\ call.mode \notin {"MAX", "AVERAGE"} => ~ret.ok
       /\ (/\ call.mode \notin {"MAX", "AVERAGE"}
           /\ KernelFits(call.kernel_shape, call.stride_shape))
          => ret.err = "ValueError"
       /\ (/\ call.mode \in {"MAX", "AVERAGE"}
           /\ KernelFits(call.kernel_shape, call.stride_shape))
          => /\ ret.ok
             /\ ret.val.shape = pool_shape(matrix.shape, call.kernel_shape,
                                           call.stride_shape).val
             /\ ret.val.shape = correlate_shape(matrix.shape, call.kernel_shape,
                                                call.stride_shape).val
             /\ Len(ret.val.data) = Size(ret.val.shape)
             /\ \A n \in 1..Size(ret.val.shape) :
                    LET e == Unravel(n - 1, ret.val.shape)
                        values == WindowValues(e, call.kernel_shape, call.stride_shape)
                    IN  IF call.mode = "MAX"
                        THEN /\ ret.val.data[n] \in values
                             /\ \A v \in values : v <= ret.val.data[n]
                        ELSE /\ ret.val.data[n].num
                                    = WindowSum(e, call.kernel_shape, call.stride_shape)
                             /\ ret.val.data[n].den = Size(call.kernel_shape)

\* C8's case: max pooling of a matrix of mixed values with 2-D windows at a stride
\* above 1, which yields more than one output element.
C8_Witness ==
    /\ call.fn = "pool"
    /\ call.mode = "MAX"
    /\ ret.ok
    /\ matrix.shape = <<3, 3>>
    /\ matrix.data = <<0 - 1, 4, 4, 0 - 1, 3, 2, 3, 0 - 1, 4>>
    /\ call.kernel_shape = <<2, 1>>
    /\ call.stride_shape = <<1, 2>>
    /\ ret.val.shape = <<2, 2>>
    /\ ret.val.data = <<0 - 1, 4, 3, 4>>

-----------------------------------------------------------------------------
(* NumPy arithmetic the layers use. *)

\* The shape two shapes broadcast to (aligned at their last dimensions), or ValueError.
BroadcastShapes(s1, s2) ==
    LET rank == Maximum(Len(s1), Len(s2))
        Ext(es, j) == IF j <= rank - Len(es) THEN 1 ELSE es[j - (rank - Len(es))]
    IN  IF \A j \in 1..rank : Ext(s1, j) = Ext(s2, j) \/ Ext(s1, j) = 1 \/ Ext(s2, j) = 1
        THEN Ok([j \in 1..rank |-> IF Ext(s1, j) = 1 THEN Ext(s2, j) ELSE Ext(s1, j)])
        ELSE Raise("ValueError")

\* The matrix products of two stacks of matrices (arrays of rank 2 or more) whose
\* inner extents agree: the leading dimensions broadcast to `batch`.
matmul_stacks(am, bm, batch) ==
    LET n == am.shape[Len(am.shape) - 1]
        k == am.shape[Len(am.shape)]
        m == bm.shape[Len(bm.shape)]
        ea == Lead(am.shape, 2)
        eb == Lead(bm.shape, 2)
        full_shape == batch \o <<n, m>>
        Cell(idx) ==
            LET e == Lead(idx, 2)
                i == idx[Len(idx) - 1]
                j == idx[Len(idx)]
            IN  SeqSum([kk \in 1..k |->
                    Load(am, BroadcastIndex(e, ea) \o <<i, kk - 1>>)
                    * Load(bm, BroadcastIndex(e, eb) \o <<kk - 1, j>>)])
    IN  [q \in 1..Size(full_shape) |-> Cell(Unravel(q - 1, full_shape))]

\* a @ b (numpy.matmul) of arrays of rank 1 or more: a 1-D operand is promoted to a
\* matrix and the added dimension removed from the result; the last two dimensions
\* are multiplied as matrices and the leading ones broadcast.
matmul(a, b) ==
    LET a_shape == IF Len(a.shape) = 1 THEN <<1>> \o a.shape ELSE a.shape
        b_shape == IF Len(b.shape) = 1 THEN b.shape \o <<1>> ELSE b.shape
        batch == BroadcastShapes(Lead(a_shape, 2), Lead(b_shape, 2))
    IN  IF b_shape[Len(b_shape) - 1] # a_shape[Len(a_shape)] THEN Raise("ValueError")
        ELSE IF ~batch.ok THEN batch
        ELSE Ok(NewArray(batch.val
                         \o (IF Len(a.shape) = 1 THEN <<>> ELSE <<a_shape[Len(a_shape) - 1]>>)
                         \o (IF Len(b.shape) = 1 THEN <<>> ELSE <<b_shape[Len(b_shape)]>>),
                         matmul_stacks(reshape(a, a_shape).val, reshape(b, b_shape).val,
                                       batch.val),
                         Promote(a.dtype, b.dtype)))

\* a + b with broadcasting
add(a, b) ==
    LET shape == BroadcastShapes(a.shape, b.shape)
    IN  IF ~shape.ok THEN shape
        ELSE Ok(NewArray(shape.val,
                         [q \in 1..Size(shape.val) |->
                             LET e == Unravel(q - 1, shape.val)
                             IN  Load(a, BroadcastIndex(e, a.shape))
                                 + Load(b, BroadcastIndex(e, b.shape))],
                         Promote(a.dtype, b.dtype)))

\* numpy.zeros(shape, dtype)
zeros(shape, dtype) == NewArray(shape, [n \in 1..Size(shape) |-> 0], dtype)

\* a[i] for the first dimension of a C-contiguous array
Item(a, i) ==
    LET shape == Tail(a.shape)
    IN  NewArray(shape, SubSeq(a.data, i * Size(shape) + 1, (i + 1) * Size(shape)), a.dtype)

-----------------------------------------------------------------------------
(* model/layer.py: the layers.  A layer is a record of its geometry and its two  *)
(* parameter tensors; a method that assigns to self returns the layer after the  *)
(* call together with what the call returned.                                    *)

\* common.REAL_DTYPE (numpy.float32), the dtype parameters are created with
real_dtype == "float32"

\* What a method of no return value returns.
None == <<>>

\* Layer.input_vector_shape and Layer.output_vector_shape: the last two dimensions
\* folded into a column vector.
vector_shape(shape) == Lead(shape, 2) \o <<SeqProd(Trail(shape, 2)), 1>>
input_vector_shape(l) == vector_shape(l.input_shape)
output_vector_shape(l) == vector_shape(l.output_shape)

\* rng.standard_normal(shape, dtype=real_type): the draw of family `seed`.
standard_normal(shape, seed) ==
    NewArray(shape, [n \in 1..Size(shape) |-> Val(seed, n - 1)], real_dtype)

\* numpy.array([]), the bias and the weight of a layer without parameters
EmptyArray == NewArray(<<0>>, <<>>, "float64")

\* FullyConnected.update_params: the dtypes of the current parameters are asserted,
\* then the references are replaced by the offered tensors.
FullyConnected_update_params(l, bias, weight) ==
    IF l.bias.dtype # real_dtype \/ l.weight.dtype # real_dtype
    THEN [layer |-> l, ret |-> Raise("AssertionError")]
    ELSE [layer |-> [l EXCEPT !.bias = bias, !.weight = weight], ret |-> Ok(None)]

\* Convolution.update_params: the offered bias is reshaped and stored, then the
\* offered weight is reshaped and stored.
Convolution_update_params(l, bias, weight) ==
    LET b == reshape(bias, l.bias.shape)
        w == reshape(weight, l.weight.shape)
    IN  IF ~b.ok THEN [layer |-> l, ret |-> b]
        ELSE IF ~w.ok THEN [layer |-> [l EXCEPT !.bias = b.val], ret |-> w]
        ELSE [layer |-> [l EXCEPT !.bias = b.val, !.weight = w.val], ret |-> Ok(None)]

\* Pool.update_params: pass
Pool_update_params(l, bias, weight) == [layer |-> l, ret |-> Ok(None)]

\* layer.update_params(bias, weight)
update_params(l, bias, weight) ==
    IF l.kind = "FullyConnected" THEN FullyConnected_update_params(l, bias, weight)
    ELSE IF l.kind = "Convolution" THEN Convolution_update_params(l, bias, weight)
    ELSE Pool_update_params(l, bias, weight)

\* Layer.init_scaled_normal_params: random parameters of the current shapes are
\* passed to update_params (the scaling of the weights is a scaling of the draw).
init_scaled_normal_params(l, seed) ==
    update_params(l, standard_normal(l.bias.shape, seed),
                     standard_normal(l.weight.shape, seed + 1))

\* FullyConnected(input_shape, output_shape); `seed` is the draw of the parameters
FullyConnected(input_shape, output_shape, seed) ==
    IF input_shape[Len(input_shape) - 2] # output_shape[Len(output_shape) - 2]
    THEN Raise("AssertionError")
    ELSE
        LET nc == input_shape[Len(input_shape) - 2]
            ny == vector_shape(output_shape)[Len(output_shape) - 1]
            nx == vector_shape(input_shape)[Len(input_shape) - 1]
            self == [kind |-> "FullyConnected",
                     input_shape |-> input_shape,
                     output_shape |-> output_shape,
                     kernel_shape |-> <<>>,
                     stride_shape |-> <<>>,
                     mode |-> "",
                     bias |-> zeros(<<nc, ny, 1>>, real_dtype),
                     weight |-> zeros(<<nc, ny, nx>>, real_dtype)]
            init == init_scaled_normal_params(self, seed)
        IN  IF init.ret.ok THEN Ok(init.layer) ELSE init.ret

\* Convolution(input_shape, kernel_shape, output_features, stride_shape)
Convolution(input_shape, kernel_shape, output_features, stride_shape, seed) ==
    IF Len(kernel_shape) # 2 THEN Raise("AssertionError")
    ELSE
        LET stride2 == broadcast_to(stride_shape, Len(kernel_shape))
        IN  IF ~stride2.ok THEN stride2
            ELSE
                LET input_channels == input_shape[Len(input_shape) - 2]
                    stride == <<1>> \o stride2.val
                    kernel == <<input_channels>> \o kernel_shape
                    correlated == correlate_shape(input_shape, kernel, stride)
                IN  IF ~correlated.ok THEN correlated
                    ELSE IF correlated.val[Len(correlated.val) - 2] # 1
                    THEN Raise("AssertionError")
                    ELSE
                        LET self == [kind |-> "Convolution",
                                     input_shape |-> input_shape,
                                     output_shape |-> Lead(correlated.val, 3)
                                                      \o <<output_features>>
                                                      \o Trail(correlated.val, 2),
                                     kernel_shape |-> kernel,
                                     stride_shape |-> stride,
                                     mode |-> "",
                                     bias |-> zeros(<<output_features, 1, 1, 1>>,
                                                    real_dtype),
                                     weight |-> zeros(<<output_features>> \o kernel,
                                                      real_dtype)]
                            init == init_scaled_normal_params(self, seed)
                        IN  IF init.ret.ok THEN Ok(init.layer) ELSE init.ret

\* Pool(input_shape, kernel_shape, mode, stride_shape); the empty stride_shape stands
\* for None
Pool(input_shape, kernel_shape, mode, stride_shape) ==
    LET stride == IF stride_shape = <<>> THEN Ok(kernel_shape)
                  ELSE broadcast_to(stride_shape, Len(kernel_shape))
    IN  IF ~stride.ok THEN stride
        ELSE
            LET pooled == pool_shape(input_shape, kernel_shape, stride.val)
            IN  IF ~pooled.ok THEN pooled
                ELSE Ok([kind |-> "Pool",
                         input_shape |-> input_shape,
                         output_shape |-> pooled.val,
                         kernel_shape |-> kernel_shape,
                         stride_shape |-> stride.val,
                         mode |-> mode,
                         bias |-> EmptyArray,
                         weight |-> EmptyArray])

\* FullyConnected.weighted_input: z = w @ x + b
FullyConnected_weighted_input(l, x) ==
    LET wx == matmul(l.weight, x)
    IN  IF ~wx.ok THEN wx ELSE add(wx.val, l.bias)

\* The first of a sequence of results that is an error, if any, else the last one.
FirstError(results) ==
    IF \E i \in 1..Len(results) : ~results[i].ok
    THEN results[CHOOSE i \in 1..Len(results) :
                    ~results[i].ok /\ \A j \in 1..(i - 1) : results[j].ok]
    ELSE results[Len(results)]

\* The data of the arrays of a sequence, one after the other.
RECURSIVE Concatenate(_)
Concatenate(arrays) ==
    IF arrays = <<>> THEN <<>> ELSE Head(arrays).data \o Concatenate(Tail(arrays))

\* The loop of Convolution.weighted_input over the output channels:
\* z[output_channel] = correlate(x, weight[output_channel], stride) + bias[output_channel]
Convolution_channels(l, x) ==
    [output_channel \in 1..l.output_shape[Len(l.output_shape) - 2] |->
        LET c == correlate(x, Item(l.weight, output_channel - 1), l.stride_shape, 0)
        IN  IF ~c.ok THEN c ELSE add(c.val, Item(l.bias, output_channel - 1))]

\* z of Convolution.weighted_input in vector form, given the results of the loop.
Convolution_z(l, channels, dtype) ==
    IF ~FirstError(channels).ok THEN FirstError(channels)
    ELSE reshape(NewArray(l.output_shape,
                          Concatenate([oc \in 1..Len(channels) |-> channels[oc].val]),
                          dtype),
                 output_vector_shape(l))

\* A faulty Convolution.weighted_input: the input is resized to input_shape (cut, or
\* repeated) instead of reshaped, so an input of any size is taken.
Convolution_weighted_input_resized(l, x) ==
    LET flat == Elements(x)
        resized == NewArray(l.input_shape,
                            [n \in 1..Size(l.input_shape) |->
                                IF flat = <<>> THEN 0 ELSE flat[((n - 1) % Len(flat)) + 1]],
                            x.dtype)
    IN  Convolution_z(l, Convolution_channels(l, resized), x.dtype)

\* Convolution.weighted_input: x is reshaped to input_shape; each output channel is
\* the correlation of x with that channel's kernel plus that channel's bias; the
\* result is returned in vector form.
Convolution_weighted_input(l, x) ==
    LET reshaped == reshape(x, l.input_shape)
    IN  IF ~reshaped.ok THEN reshaped
        ELSE Convolution_z(l, Convolution_channels(l, reshaped.val), x.dtype)

\* Pool.weighted_input: x is reshaped to input_shape and pooled; the result is
\* returned in vector form.
Pool_weighted_input(l, x) ==
    LET reshaped == reshape(x, l.input_shape)
    IN  IF ~reshaped.ok THEN reshaped
        ELSE
            LET z == pool(reshaped.val, l.kernel_shape, l.stride_shape, l.mode)
            IN  IF ~z.ok THEN z
                ELSE IF z.val.shape # l.output_shape THEN Raise("AssertionError")
                ELSE reshape(z.val, output_vector_shape(l))

\* layer.weighted_input(x)
weighted_input(l, x) ==
    IF l.kind = "FullyConnected" THEN FullyConnected_weighted_input(l, x)
    ELSE IF l.kind = "Convolution" THEN Convolution_weighted_input(l, x)
    ELSE Pool_weighted_input(l, x)

-----------------------------------------------------------------------------
(* The layers under test: a layer of one of the three kinds is constructed, and *)
(* each step calls one of its methods with arguments drawn from small sets.     *)

\* Largest height and width of a layer's input.
MaxSide == 2
\* Heights and widths of a layer's kernel.
KernelSides == {1, 2}
\* Numbers of channels of the input, and of features of a convolution.
Channels == {1, 2}
\* Draws of the initial parameters.
ParamSeeds == {1}

InputShapes == {<<c, h, w>> : c \in Channels, h \in 1..MaxSide, w \in 1..MaxSide}
OutputShapes == {<<c, h, w>> : c \in Channels, h \in 1..MaxSide, w \in {1, 2}}
LayerKernelShapes == Tuples(2, KernelSides)
LayerStrideShapes == Tuples(1, 1..MaxStride) \cup Tuples(2, 1..MaxStride)
PoolKernelShapes == LayerKernelShapes \cup {<<1>> \o k : k \in LayerKernelShapes}
PoolStrideShapes == {<<>>} \cup Tuples(1, 1..MaxStride) \cup Tuples(2, 1..MaxStride)

FullyConnectedLayers ==
    {FullyConnected(t[1], t[2], t[3]).val :
        t \in {u \in InputShapes \X OutputShapes \X ParamSeeds :
                  FullyConnected(u[1], u[2], u[3]).ok}}
ConvolutionLayers ==
    {Convolution(t[1], t[2], t[3], t[4], t[5]).val :
        t \in {u \in InputShapes \X LayerKernelShapes \X Channels \X LayerStrideShapes
                     \X ParamSeeds :
                  Convolution(u[1], u[2], u[3], u[4], u[5]).ok}}
PoolLayers ==
    {Pool(t[1], t[2], t[3], t[4]).val :
        t \in {u \in InputShapes \X PoolKernelShapes \X PoolModes \X PoolStrideShapes :
                  Pool(u[1], u[2], u[3], u[4]).ok}}

\* The shapes the bias and the weight of a layer are constructed with.
ConstructedBiasShape(l) ==
    IF l.kind = "FullyConnected"
    THEN <<l.input_shape[1], vector_shape(l.output_shape)[2], 1>>
    ELSE IF l.kind = "Convolution" THEN <<l.output_shape[1], 1, 1, 1>>
    ELSE <<0>>
ConstructedWeightShape(l) ==
    IF l.kind = "FullyConnected"
    THEN <<l.input_shape[1], vector_shape(l.output_shape)[2],
           vector_shape(l.input_shape)[2]>>
    ELSE IF l.kind = "Convolution" THEN <<l.output_shape[1]>> \o l.kernel_shape
    ELSE <<0>>

\* Tensors offered to update_params for a parameter constructed with `shape`: of that
\* shape, of another shape of the same size, and of another size.
OfferedShapes(shape) == {shape, <<Size(shape)>>, <<shape[1] + 1>> \o Tail(shape)}
OfferedParams(shape, dtype) ==
    {NewArray(sh, [n \in 1..Size(sh) |-> 1], dtype) : sh \in OfferedShapes(shape)}
\* The pairs (bias, weight) offered to update_params: every combination of the offered
\* shapes in the parameters' dtype, and the constructed shapes in float64.
OfferedUpdates(l) ==
    (OfferedParams(ConstructedBiasShape(l), real_dtype)
        \X OfferedParams(ConstructedWeightShape(l), real_dtype))
    \cup {<<NewArray(ConstructedBiasShape(l),
                     [n \in 1..Size(ConstructedBiasShape(l)) |-> 1], "float64"),
            NewArray(ConstructedWeightShape(l),
                     [n \in 1..Size(ConstructedWeightShape(l)) |-> 1], "float64")>>}

\* Inputs offered to weighted_input: the input in vector form, in input_shape, flat,
\* a batch of two, two columns, and one row too many.
OfferedInputShapes(l) ==
    LET v == input_vector_shape(l)
    IN  {v, l.input_shape, <<Size(v)>>, <<2>> \o v, <<v[2], 2>>, <<v[1], v[2] + 1, 1>>}
OfferedInputs(l) == {MakeMatrix(sh, 1) : sh \in OfferedInputShapes(l)}

LayerInit ==
    /\ layer \in FullyConnectedLayers \cup ConvolutionLayers \cup PoolLayers
    /\ lpc = "idle"
    /\ lcall = NoCall
    /\ lret = NoRet
    /\ matrix = NoMatrix
    /\ vpc = "off"
    /\ call = NoCall
    /\ ret = NoRet
    /\ TrainOff

CallUpdateParams ==
    /\ lpc = "idle"
    /\ \E offered \in OfferedUpdates(layer) :
        /\ lcall' = [fn |-> "update_params", bias |-> offered[1], weight |-> offered[2],
                     self |-> layer]
        /\ layer' = update_params(layer, offered[1], offered[2]).layer
        /\ lret' = update_params(layer, offered[1], offered[2]).ret
    /\ lpc' = "done"
    /\ UNCHANGED <<vecVars, trainVars>>

CallWeightedInput ==
    /\ lpc = "idle"
    /\ \E x \in OfferedInputs(layer) :
        /\ lcall' = [fn |-> "weighted_input", x |-> x]
        /\ lret' = weighted_input(layer, x)
    /\ lpc' = "done"
    /\ UNCHANGED <<layer, vecVars, trainVars>>

\* The caller takes the result; the next call may follow.
LayerReturn ==
    /\ lpc = "done"
    /\ lpc' = "idle"
    /\ lcall' = NoCall
    /\ lret' = NoRet
    /\ UNCHANGED <<layer, vecVars, trainVars>>

LayerNext ==
    \/ CallUpdateParams
    \/ CallWeightedInput
    \/ LayerReturn

SpecLayer == LayerInit /\ [][LayerNext]_vars

-----------------------------------------------------------------------------
(* Properties of the layers. *)

(* C9: for every layer kind, update_params(bias, weight) accepts only tensors     *)
(* whose shapes equal the layer's current bias and weight shapes exactly, and     *)
(* otherwise fails leaving both parameters as they were; hence the bias and the   *)
(* weight of a layer always have the shapes they were constructed with.           *)
C9_UpdateParamsKeepsShapes ==
    /\ (/\ lcall.fn = "update_params"
        /\ \/ lcall.bias.shape # lcall.self.bias.shape
           \/ lcall.weight.shape # lcall.self.weight.shape)
       => /\ ~lret.ok
          /\ layer.bias = lcall.self.bias
          /\ layer.weight = lcall.self.weight
    /\ layer # NoLayer
       => /\ layer.bias.shape = ConstructedBiasShape(layer)
          /\ layer.weight.shape = ConstructedWeightShape(layer)

(* C10, as the code has it: weighted_input(x) of a Convolution or a Pool layer    *)
(* raises ValueError whenever x does not have as many elements as input_shape,    *)
(* that is, whenever x cannot be reshaped to input_shape.                         *)
C10_WeightedInputRejectsUnreshapable ==
    (/\ lcall.fn = "weighted_input"
     /\ layer.kind \in {"Convolution", "Pool"}
     /\ Size(lcall.x.shape) # Size(layer.input_shape))
    => /\ ~lret.ok
       /\ lret.err = "ValueError"

\* C10's case: a Convolution layer is given a batch of two inputs, which cannot be
\* reshaped to its input_shape, and the call raises.
C10_Witness ==
    /\ lcall.fn = "weighted_input"
    /\ layer.kind = "Convolution"
    /\ layer.input_shape = <<2, 2, 2>>
    /\ lcall.x.shape = <<2, 2, 4, 1>>
    /\ lret = Raise("ValueError")

(* C10 as stated: for every layer kind, weighted_input(x) fails whenever x cannot *)
(* be reshaped to the layer's input_shape.                                        *)
C10_EveryKindRejectsUnreshapable ==
    (/\ lcall.fn = "weighted_input"
     /\ Size(lcall.x.shape) # Size(layer.input_shape))
    => ~lret.ok

-----------------------------------------------------------------------------
(* model/layer.py: Pool.backpropagate.  dC/dx is built by writing through a      *)
(* writeable sliding window view of a zero tensor, one output position after the *)
(* other.  With AVERAGE pooling the elements of dC/dx are kept exactly, as       *)
(* fractions [num, den] whose denominator is the number of elements of a window  *)
(* (the reciprocal of which is _rcp_num_kernel_elements).                        *)

\* ndarray.argmax() of the elements of a window: the (1-based) place of the first
\* maximum in C order.
argmax(w) == CHOOSE i \in 1..Len(w) : w[i] = SeqMax(w) /\ \A j \in 1..(i - 1) : w[j] # SeqMax(w)

\* dCdx_pool.flat[x_pool.argmax()] = delta[pool_idx]
Pool_max_write(data, addrs, x_pool, d) == [data EXCEPT ![addrs[argmax(x_pool)] + 1] = d]

\* A faulty average write: the gradient is added whole, not divided by the window size.
Pool_average_write_unscaled(data, addrs, x_pool, d) ==
    [q \in 1..Len(data) |->
        IF \E i \in 1..Len(addrs) : addrs[i] + 1 = q
        THEN [data[q] EXCEPT !.num = @ + d * data[q].den]
        ELSE data[q]]

\* dCdx_pool += delta[pool_idx] * self._rcp_num_kernel_elements
Pool_average_write(data, addrs, x_pool, d) ==
    [q \in 1..Len(data) |->
        IF \E i \in 1..Len(addrs) : addrs[i] + 1 = q
        THEN [data[q] EXCEPT !.num = @ + d]
        ELSE data[q]]

\* The loop of Pool.backpropagate over np.ndindex(*output_shape): `data` is the buffer
\* of dCdx after the first n output positions.
RECURSIVE Pool_backpropagate_loop(_, _, _, _, _, _)
Pool_backpropagate_loop(l, x_pool_view, dCdx_pool_view, delta, data, n) ==
    IF n = Size(l.output_shape) THEN data
    ELSE
        LET pool_idx == Unravel(n, l.output_shape)
            x_pool == Window(x_pool_view, Len(l.kernel_shape), pool_idx)
            addrs == [kn \in 1..Size(l.kernel_shape) |->
                         Addr(dCdx_pool_view, pool_idx \o Unravel(kn - 1, l.kernel_shape))]
        IN  Pool_backpropagate_loop(
                l, x_pool_view, dCdx_pool_view, delta,
                IF l.mode = "MAX"
                THEN Pool_max_write(data, addrs, x_pool, delta.data[n + 1])
                ELSE Pool_average_write(data, addrs, x_pool, delta.data[n + 1]),
                n + 1)

\* np.zeros(self.input_shape, dtype=delta.dtype), in the representation of the mode
Pool_zeros(l, dtype) ==
    NewArray(l.input_shape,
             [q \in 1..Size(l.input_shape) |->
                 IF l.mode = "AVERAGE" THEN [num |-> 0, den |-> Size(l.kernel_shape)] ELSE 0],
             dtype)

\* Pool.backpropagate(x, delta)
Pool_backpropagate(l, x, delta) ==
    IF delta.dtype # real_dtype THEN Raise("AssertionError")
    ELSE IF ~reshape(x, l.input_shape).ok THEN reshape(x, l.input_shape)
    ELSE IF ~reshape(delta, l.output_shape).ok THEN reshape(delta, l.output_shape)
    ELSE IF l.mode \notin {"MAX", "AVERAGE"} /\ Size(l.output_shape) > 0 THEN Raise("ValueError")
    ELSE
        LET dCdx == Pool_zeros(l, delta.dtype)
            x_pool_view == sliding_window_view(reshape(x, l.input_shape).val,
                                               l.kernel_shape, l.stride_shape, FALSE)
            dCdx_pool_view == sliding_window_view(dCdx, l.kernel_shape, l.stride_shape, TRUE)
        IN  Ok(NewArray(input_vector_shape(l),
                        Pool_backpropagate_loop(l, x_pool_view.val, dCdx_pool_view.val,
                                                reshape(delta, l.output_shape).val,
                                                dCdx.data, 0),
                        delta.dtype))

-----------------------------------------------------------------------------
(* Pool layers under test: a Pool layer is constructed (its input one larger than *)
(* the other layers', so that windows overlap and repeat), and each step passes   *)
(* an input and an upstream gradient back through it.                             *)

PoolInputShapes == {<<c, h, w>> : c \in Channels, h \in 1..(MaxSide + 1), w \in 1..(MaxSide + 1)}
\* Families of input values: with ties, increasing, and mixed.
PoolSeeds == Seeds \cup {3}

PoolLayersUnderTest ==
    {Pool(t[1], t[2], t[3], t[4]).val :
        t \in {u \in PoolInputShapes \X PoolKernelShapes \X PoolModes \X PoolStrideShapes :
                  Pool(u[1], u[2], u[3], u[4]).ok}}

PoolInit ==
    /\ layer \in PoolLayersUnderTest
    /\ lpc = "idle"
    /\ lcall = NoCall
    /\ lret = NoRet
    /\ matrix = NoMatrix
    /\ vpc = "off"
    /\ call = NoCall
    /\ ret = NoRet
    /\ TrainOff

\* layer.backpropagate(x, delta) with x an input vector and delta an upstream gradient
\* of the layer's output, of the real dtype or of float64.
CallPoolBackpropagate ==
    /\ lpc = "idle"
    /\ \E seed \in PoolSeeds, dtype \in {real_dtype, "float64"} :
        LET x == standard_normal(input_vector_shape(layer), seed)
            delta == NewArray(output_vector_shape(layer),
                              [n \in 1..Size(layer.output_shape) |-> n], dtype)
        IN  /\ lcall' = [fn |-> "backpropagate", x |-> x, delta |-> delta]
            /\ lret' = Pool_backpropagate(layer, x, delta)
    /\ lpc' = "done"
    /\ UNCHANGED <<layer, vecVars, trainVars>>

PoolNext ==
    \/ CallPoolBackpropagate
    \/ LayerReturn

SpecPool == PoolInit /\ [][PoolNext]_vars

-----------------------------------------------------------------------------
(* Properties of Pool.backpropagate. *)

\* The windows of the layer over a tensor given in vector form.
PoolView(a) ==
    sliding_window_view(reshape(a, layer.input_shape).val, layer.kernel_shape,
                        layer.stride_shape, FALSE).val
\* The n-th output position (1-based, C order), and the elements of its window.
PoolPosition(n) == Unravel(n - 1, layer.output_shape)
PoolWindow(a, n) == Window(PoolView(a), Len(layer.kernel_shape), PoolPosition(n))
\* The places in the buffer of the elements of the n-th window.
PoolWindowAddresses(n) ==
    {Addr(PoolView(lcall.x), PoolPosition(n) \o Unravel(kn - 1, layer.kernel_shape)) + 1 :
        kn \in 1..Size(layer.kernel_shape)}
\* Every window of x has its maximum at exactly one place.
UniqueMaxima(x) ==
    \A n \in 1..Size(layer.output_shape) :
        LET w == PoolWindow(x, n)
        IN  Cardinality({i \in 1..Len(w) : w[i] = SeqMax(w)}) = 1
\* The stride is at least the kernel in every dimension: no two windows share an element.
WindowsApart ==
    \A i \in 1..Len(layer.kernel_shape) : layer.stride_shape[i] >= layer.kernel_shape[i]

(* C11: for a MAX Pool layer and an input in which the maximum of each window is  *)
(* unique, backpropagate returns a dC/dx in which, for every output position, the *)
(* window's element at the arg-max place is that position's delta, every other    *)
(* element of the window is 0, and so the window sums to that delta.              *)
C11_MaxPoolRoutesGradient ==
    (/\ lcall.fn = "backpropagate"
     /\ layer.mode = "MAX"
     /\ lret.ok
     /\ UniqueMaxima(lcall.x))
    => \A n \in 1..Size(layer.output_shape) :
           LET w == PoolWindow(lret.val, n)
               at == argmax(PoolWindow(lcall.x, n))
           IN  /\ SeqSum(w) = lcall.delta.data[n]
               /\ w[at] = lcall.delta.data[n]
               /\ \A i \in 1..Len(w) : i # at => w[i] = 0

-----------------------------------------------------------------------------
(* The numbers of the trainer (common/__init__.py).  The optimizer computes in
   REAL_TYPE; its numbers are kept exact here, as fractions [num, den] in lowest
   terms with a positive denominator, so that equalities between computed tensors
   are decided and not approximated. *)

Abs(a) == IF a < 0 THEN 0 - a ELSE a

RECURSIVE GCD(_, _)
GCD(a, b) == IF b = 0 THEN a ELSE GCD(b, a % b)

\* The fraction n / d (d # 0) in lowest terms.
Fraction(n, d) ==
    LET g == GCD(Abs(n), Abs(d))
        s == IF d < 0 THEN 0 - 1 ELSE 1
    IN  [num |-> (s * n) \div g, den |-> (s * d) \div g]

\* REAL_TYPE(n) of an integer n
REAL_TYPE(n) == [num |-> n, den |-> 1]

\* The sum, over the least common denominator, which keeps the intermediate values
\* small.
RealAdd(p, q) ==
    LET g == GCD(p.den, q.den)
    IN  Fraction(p.num * (q.den \div g) + q.num * (p.den \div g), (p.den \div g) * q.den)
RealNeg(p) == [num |-> 0 - p.num, den |-> p.den]
RealSub(p, q) == RealAdd(p, RealNeg(q))
\* The product; common factors are removed across the operands first, which keeps
\* the intermediate values small.
RealMul(p, q) ==
    LET a == Fraction(p.num, q.den)
        b == Fraction(q.num, p.den)
    IN  [num |-> a.num * b.num, den |-> a.den * b.den]
RealLess(p, q) ==
    LET g == GCD(p.den, q.den)
    IN  p.num * (q.den \div g) < q.num * (p.den \div g)
RealGeq(p, q) == ~RealLess(p, q)
\* numpy.reciprocal of a number other than zero
reciprocal(p) == Fraction(p.den, p.num)

RECURSIVE RealSum(_)
RealSum(s) == IF s = <<>> THEN REAL_TYPE(0) ELSE RealAdd(s[1], RealSum(Tail(s)))

\* EPSILON = REAL_TYPE(1e-7)
EPSILON == Fraction(1, 10000000)

\* numpy.finfo(REAL_TYPE).max: larger than every number of the model
finfo_max == [num |-> 1, den |-> 0]

\* a < b among the reals and finfo_max
Below(a, b) == IF a.den = 0 THEN FALSE ELSE IF b.den = 0 THEN TRUE ELSE RealLess(a, b)

\* numpy.minimum(a, b)
minimum(a, b) == IF Below(b, a) THEN b ELSE a

-----------------------------------------------------------------------------
(* Arrays of reals. *)

\* a.astype(REAL_TYPE) of an array of integers
astype(a) ==
    [a EXCEPT !.data = [n \in 1..Len(a.data) |-> REAL_TYPE(a.data[n])], !.dtype = real_dtype]

\* An arithmetic operation on two arrays of reals, element by element with
\* broadcasting.
elementwise(a, b, Op(_, _)) ==
    LET shape == BroadcastShapes(a.shape, b.shape)
    IN  IF ~shape.ok THEN shape
        ELSE Ok(NewArray(shape.val,
                         [q \in 1..Size(shape.val) |->
                             LET e == Unravel(q - 1, shape.val)
                             IN  Op(Load(a, BroadcastIndex(e, a.shape)),
                                    Load(b, BroadcastIndex(e, b.shape)))],
                         Promote(a.dtype, b.dtype)))

\* a + b, a - b and a * b of arrays of reals
real_add(a, b) == elementwise(a, b, RealAdd)
real_sub(a, b) == elementwise(a, b, RealSub)
real_mul(a, b) == elementwise(a, b, RealMul)

\* a * s of an array and a REAL_TYPE scalar
scale(a, s) ==
    NewArray(a.shape, [n \in 1..Size(a.shape) |-> RealMul(Elements(a)[n], s)], a.dtype)

\* vec.zeros_from(m) for an array of reals
zeros_from(m) == NewArray(m.shape, [n \in 1..Size(m.shape) |-> REAL_TYPE(0)], m.dtype)

\* vec.is_vector_2d(m)
is_vector_2d(m) == Len(m.shape) >= 2 /\ m.shape[Len(m.shape)] = 1

\* vec.vector_2d(m)
vector_2d(m) == reshape(m, vector_shape(m.shape))

\* vec.transpose_2d(m): numpy.swapaxes(m, -2, -1), a view of m
transpose_2d(m) ==
    LET r == Len(m.shape)
        Swap(s) == [i \in 1..r |-> IF i = r - 1 THEN s[r] ELSE IF i = r THEN s[r - 1] ELSE s[i]]
    IN  [m EXCEPT !.shape = Swap(m.shape), !.strides = Swap(m.strides)]

\* vec.reshape_lower(a, shape)
reshape_lower(a, shape) ==
    IF Len(shape) > Len(a.shape) THEN reshape(a, shape)
    ELSE reshape(a, Lead(a.shape, Len(shape)) \o shape)

\* a.sum(axis=0) of an array of reals of rank 1 or more
sum_axis_0(a) ==
    LET shape == Tail(a.shape)
    IN  NewArray(shape,
                 [q \in 1..Size(shape) |->
                     RealSum([i \in 1..a.shape[1] |->
                                 Load(a, <<i - 1>> \o Unravel(q - 1, shape))])],
                 a.dtype)

\* The matrix products of two stacks of matrices of reals (see matmul_stacks).
real_matmul_stacks(am, bm, batch) ==
    LET n == am.shape[Len(am.shape) - 1]
        k == am.shape[Len(am.shape)]
        m == bm.shape[Len(bm.shape)]
        ea == Lead(am.shape, 2)
        eb == Lead(bm.shape, 2)
        full_shape == batch \o <<n, m>>
        Cell(idx) ==
            LET e == Lead(idx, 2)
                i == idx[Len(idx) - 1]
                j == idx[Len(idx)]
            IN  RealSum([kk \in 1..k |->
                    RealMul(Load(am, BroadcastIndex(e, ea) \o <<i, kk - 1>>),
                            Load(bm, BroadcastIndex(e, eb) \o <<kk - 1, j>>))])
    IN  [q \in 1..Size(full_shape) |-> Cell(Unravel(q - 1, full_shape))]

\* a @ b of arrays of reals of rank 2 or more
real_matmul(a, b) ==
    LET batch == BroadcastShapes(Lead(a.shape, 2), Lead(b.shape, 2))
    IN  IF b.shape[Len(b.shape) - 1] # a.shape[Len(a.shape)] THEN Raise("ValueError")
        ELSE IF ~batch.ok THEN batch
        ELSE Ok(NewArray(batch.val \o <<a.shape[Len(a.shape) - 1], b.shape[Len(b.shape)]>>,
                         real_matmul_stacks(a, b, batch.val),
                         Promote(a.dtype, b.dtype)))

-----------------------------------------------------------------------------
(* Gradient clipping (optimizer.py). *)

\* The largest r with r * r <= n.
isqrt(n) == CHOOSE r \in 0..n : r * r <= n /\ (r + 1) * (r + 1) > n

RECURSIVE CommonDenominator(_)
CommonDenominator(col) ==
    IF col = <<>> THEN 1
    ELSE LET d == CommonDenominator(Tail(col))
         IN  (d \div GCD(d, col[1].den)) * col[1].den

RECURSIVE CommonFactor(_)
CommonFactor(ints) == IF ints = <<>> THEN 0 ELSE GCD(Abs(ints[1]), CommonFactor(Tail(ints)))

\* The Euclidean norm of a sequence of reals.  The sequence is written g/D * u with
\* u a sequence of integers without a common factor, and its norm is g/D * |u|;
\* the root is exact when |u|^2 is a perfect square, which is the case for the
\* vectors the clipping is exercised on (VectorsWithNorm).
vector_norm(col) ==
    LET D == CommonDenominator(col)
        a == [i \in 1..Len(col) |-> col[i].num * (D \div col[i].den)]
        g == CommonFactor(a)
    IN  IF g = 0 THEN REAL_TYPE(0)
        ELSE Fraction(g * isqrt(SeqSum([i \in 1..Len(a) |-> (a[i] \div g) * (a[i] \div g)])), D)


\* The column of a stack of column vectors that the element at index e belongs to.
Column(delta, e) ==
    [i \in 1..delta.shape[Len(e) - 1] |-> Load(delta, [e EXCEPT ![Len(e) - 1] = i - 1])]

\* numpy.linalg.norm(delta, axis=-2, keepdims=True)
linalg_norm(delta) ==
    LET shape == [delta.shape EXCEPT ![Len(delta.shape) - 1] = 1]
    IN  NewArray(shape,
                 [q \in 1..Size(shape) |-> vector_norm(Column(delta, Unravel(q - 1, shape)))],
                 delta.dtype)

\* numpy.where(delta_norms >= norm_threshold, delta * rcp_delta_norms * norm_threshold, delta)
clip_where(delta, delta_norms, norm_threshold) ==
    NewArray(delta.shape,
             [q \in 1..Size(delta.shape) |->
                 LET e == Unravel(q - 1, delta.shape)
                     n == Load(delta_norms, BroadcastIndex(e, delta_norms.shape))
                 IN  IF RealGeq(n, norm_threshold)
                     THEN RealMul(RealMul(Load(delta, e), reciprocal(RealAdd(n, EPSILON))),
                                  norm_threshold)
                     ELSE Load(delta, e)],
             delta.dtype)

\* The variant of the clipping that divides by the norm alone.
clip_norm_2d_no_epsilon(delta, norm_threshold) ==
    IF ~is_vector_2d(delta) THEN Raise("AssertionError")
    ELSE IF Below(norm_threshold, finfo_max)
    THEN Ok(NewArray(delta.shape,
             [q \in 1..Size(delta.shape) |->
                 LET e == Unravel(q - 1, delta.shape)
                     n == vector_norm(Column(delta, e))
                 IN  IF RealGeq(n, norm_threshold) /\ n.num # 0
                     THEN RealMul(RealMul(Load(delta, e), reciprocal(n)), norm_threshold)
                     ELSE Load(delta, e)],
             delta.dtype))
    ELSE Ok(delta)

\* _clip_norm_2d(delta, norm_threshold)
clip_norm_2d(delta, norm_threshold) ==
    IF ~is_vector_2d(delta) THEN Raise("AssertionError")
    ELSE IF Below(norm_threshold, finfo_max)
    THEN Ok(clip_where(delta, linalg_norm(delta), norm_threshold))
    ELSE Ok(delta)

-----------------------------------------------------------------------------
(* Calls of _clip_norm_2d on error signals. *)

\* Largest number of column vectors in one error signal.
MaxColumns == 2

\* Column vectors whose norm is a rational number: 0, 5, 5, 10, 5, 13 and 5/2.
VectorsWithNorm ==
    {<<REAL_TYPE(0), REAL_TYPE(0)>>, <<REAL_TYPE(3), REAL_TYPE(4)>>,
     <<REAL_TYPE(0 - 4), REAL_TYPE(3)>>, <<REAL_TYPE(6), REAL_TYPE(8)>>,
     <<REAL_TYPE(0), REAL_TYPE(0 - 5)>>, <<REAL_TYPE(5), REAL_TYPE(12)>>,
     <<Fraction(3, 2), REAL_TYPE(2)>>}

\* Clip thresholds: gradient_clip_norm as the constructor stores it.
NormThresholds ==
    {REAL_TYPE(0), REAL_TYPE(1), Fraction(5, 2), REAL_TYPE(5), REAL_TYPE(10), finfo_max}

\* The elements of a stack of columns of length 2, in C order.
StackData(cols) == [n \in 1..(2 * Len(cols)) |-> cols[((n - 1) \div 2) + 1][((n - 1) % 2) + 1]]

\* Error signals: stacks of 1..MaxColumns column vectors (the columns are the
\* channels of one sample, or the samples of a batch), and one array that is not
\* a stack of column vectors.
ErrorSignals ==
    UNION {{NewArray(shape, StackData(cols), real_dtype) :
                cols \in Tuples(k, VectorsWithNorm), shape \in {<<k, 2, 1>>, <<k, 1, 2, 1>>}} :
              k \in 1..MaxColumns}
    \cup {NewArray(<<1, 1, 2>>, c, real_dtype) : c \in VectorsWithNorm}

ClipInit ==
    /\ layer = NoLayer
    /\ lpc = "idle"
    /\ lcall = NoCall
    /\ lret = NoRet
    /\ matrix = NoMatrix
    /\ vpc = "off"
    /\ call = NoCall
    /\ ret = NoRet
    /\ TrainOff

CallClipNorm2d ==
    /\ lpc = "idle"
    /\ \E delta \in ErrorSignals, norm_threshold \in NormThresholds :
        /\ lcall' = [fn |-> "_clip_norm_2d", delta |-> delta, norm_threshold |-> norm_threshold]
        /\ lret' = clip_norm_2d(delta, norm_threshold)
    /\ lpc' = "done"
    /\ UNCHANGED <<layer, vecVars, trainVars>>

ClipNext ==
    \/ CallClipNorm2d
    \/ LayerReturn

SpecClip == ClipInit /\ [][ClipNext]_vars

-----------------------------------------------------------------------------
(* Claim C16. *)

Clipped == lpc = "done" /\ lcall.fn = "_clip_norm_2d" /\ lret.ok

\* The indices of the first elements of the columns of the signal of the call.
SignalColumns ==
    LET shape == [lcall.delta.shape EXCEPT ![Len(lcall.delta.shape) - 1] = 1]
    IN  {Unravel(q - 1, shape) : q \in 1..Size(shape)}

\* v is u multiplied by the scalar c.
ScaledBy(v, u, c) == \A i \in 1..Len(u) : v[i] = RealMul(u[i], c)

\* The column at e exceeds the threshold of the call.
Exceeds(e) == Below(lcall.norm_threshold, vector_norm(Column(lcall.delta, e)))

\* The column at e is below the threshold of the call.
Within(e) == Below(vector_norm(Column(lcall.delta, e)), lcall.norm_threshold)

-----------------------------------------------------------------------------
(* Activation and cost functions (model.py), on arrays of reals. *)


\* Elementwise map of an array of reals
MapArray(a, F(_)) == NewArray(a.shape, [n \in 1..Size(a.shape) |-> F(Elements(a)[n])], a.dtype)

\* z > 0 as REAL_TYPE
Positive(z) == IF z.num > 0 THEN REAL_TYPE(1) ELSE REAL_TYPE(0)

\* The first result if it is an exception, otherwise what F makes of its value:
\* the rest of a computation that an exception cuts short.
Bind(r, F(_)) == IF r.ok THEN F(r.val) ELSE r

\* activation.eval(z): Identity returns z, ReLU returns z * (z > 0)
activation_eval(activation, z) ==
    IF activation = "ReLU" THEN real_mul(z, MapArray(z, Positive)) ELSE Ok(z)

\* activation.jacobian_mul(z, right=right): the transposed Jacobian of the
\* activation at z times right; for ReLU the Jacobian is diag(z > 0).
jacobian_mul(activation, z, right) ==
    IF activation = "ReLU" THEN real_mul(MapArray(z, Positive), right) ELSE Ok(right)

\* Quadratic.derived_eval(a, y)
Quadratic_derived_eval(a, y) == real_sub(a, y)

-----------------------------------------------------------------------------
(* The layers as the optimizer uses them: on arrays of reals. *)

\* The layer record with its activation function (self._activation) and with its
\* parameters as reals.
WithActivation(l, activation) ==
    [f \in DOMAIN l \cup {"activation"} |->
        IF f = "activation" THEN activation
        ELSE IF f \in {"bias", "weight"} /\ l.kind # "Pool" THEN astype(l[f])
        ELSE l[f]]

\* layer.activation
activation(l) == IF l.kind = "Pool" THEN "Identity" ELSE l.activation

\* An array of reals as the array of its numerators over the denominator D, and
\* an array of integers (or of means [num, den]) over D as an array of reals.
Numerators(a, D) ==
    [a EXCEPT !.data = [n \in 1..Len(a.data) |-> a.data[n].num * (D \div a.data[n].den)]]
Over(a, D, mode) ==
    [a EXCEPT !.data = [n \in 1..Len(a.data) |->
                            IF mode = "AVERAGE" THEN Fraction(a.data[n].num, a.data[n].den * D)
                            ELSE Fraction(a.data[n], D)]]

\* FullyConnected.weighted_input(x) on reals
FullyConnected_z(l, x) ==
    Bind(real_matmul(l.weight, x), LAMBDA wx : real_add(wx, l.bias))

\* Pool.weighted_input(x) on reals: pooling commutes with the scaling by the
\* common denominator of x.
Pool_z(l, x) ==
    LET Pooled(D) == Bind(Pool_weighted_input(l, Numerators(x, D)),
                          LAMBDA z : Ok(Over(z, D, l.mode)))
    IN  Pooled(CommonDenominator(x.data))

\* layer.weighted_input(x, cache)
layer_weighted_input(l, x) ==
    IF l.kind = "Pool" THEN Pool_z(l, x) ELSE FullyConnected_z(l, x)

\* layer.feedforward(x, cache)
layer_feedforward(l, x) ==
    Bind(layer_weighted_input(l, x), LAMBDA z : activation_eval(activation(l), z))

\* FullyConnected.derived_params(x, delta)
FullyConnected_derived_params(l, x, delta) ==
    Bind(real_matmul(delta, transpose_2d(x)),
         LAMBDA del_w : Ok([del_b |-> delta, del_w |-> del_w]))

\* Pool.derived_params(x, delta)
Pool_derived_params(l, x, delta) == Ok([del_b |-> EmptyArray, del_w |-> EmptyArray])

\* layer.derived_params(x, delta, cache)
layer_derived_params(l, x, delta) ==
    IF l.kind = "Pool" THEN Pool_derived_params(l, x, delta)
    ELSE FullyConnected_derived_params(l, x, delta)

\* FullyConnected.backpropagate(x, delta)
FullyConnected_backpropagate(l, x, delta) ==
    IF delta.dtype # real_dtype THEN Raise("AssertionError")
    ELSE real_matmul(transpose_2d(l.weight), delta)

\* Pool.backpropagate(x, delta) on reals: the gradient is linear in delta and
\* the maxima of x are those of its numerators.
Pool_dCdx(l, x, delta) ==
    LET Routed(D) == Bind(Pool_backpropagate(l, Numerators(x, CommonDenominator(x.data)),
                                             Numerators(delta, D)),
                          LAMBDA dCdx : Ok(Over(dCdx, D, l.mode)))
    IN  Routed(CommonDenominator(delta.data))

\* layer.backpropagate(x, delta, cache)
layer_backpropagate(l, x, delta) ==
    IF l.kind = "Pool" THEN Pool_dCdx(l, x, delta) ELSE FullyConnected_backpropagate(l, x, delta)

-----------------------------------------------------------------------------
(* Network (model.py): an ordered list of layers and a cost function. *)

\* Network(hidden_layers, cost)
Network(hidden_layers, cost) ==
    [hidden_layers |-> hidden_layers, num_layers |-> Len(hidden_layers) + 1, cost |-> cost]

\* network.biases and network.weights
biases(net) == [i \in 1..Len(net.hidden_layers) |-> net.hidden_layers[i].bias]
weights(net) == [i \in 1..Len(net.hidden_layers) |-> net.hidden_layers[i].weight]

\* network.feedforward(x): x threaded through the layers from the i-th on
RECURSIVE feedforward_from(_, _, _)
feedforward_from(net, i, a) ==
    IF i > Len(net.hidden_layers) THEN Ok(a)
    ELSE Bind(layer_feedforward(net.hidden_layers[i], a),
              LAMBDA next : feedforward_from(net, i + 1, next))

feedforward(net, x) == feedforward_from(net, 1, x)

-----------------------------------------------------------------------------
(* Backpropagation (optimizer.py). *)

\* The forward pass of _sgd_backpropagation from layer i on: the activations
\* as_ (as_[i] the input of layer i, as_[i + 1] its output) and the weighted
\* inputs zs (zs[i] that of layer i).
RECURSIVE forward_pass(_, _, _, _)
forward_pass(net, i, as_, zs) ==
    IF i > Len(net.hidden_layers) THEN Ok([as_ |-> as_, zs |-> zs])
    ELSE Bind(layer_weighted_input(net.hidden_layers[i], as_[i]),
              LAMBDA z : Bind(activation_eval(activation(net.hidden_layers[i]), z),
                              LAMBDA a : forward_pass(net, i + 1, Append(as_, a),
                                                      Append(zs, z))))

\* The variant of the error signal that is clipped at the last layer only.
layer_delta_clip_last(net, fwd, i, right, gradient_clip_norm) ==
    Bind(jacobian_mul(activation(net.hidden_layers[i]),
                      vector_2d(fwd.zs[i]).val, vector_2d(right).val),
         LAMBDA through :
            Bind(IF i = Len(net.hidden_layers) THEN clip_norm_2d(through, gradient_clip_norm)
                 ELSE Ok(through),
                 LAMBDA clipped : reshape(clipped, fwd.as_[i + 1].shape)))

\* The error signal of layer i from the signal `right` that reaches its output:
\* multiplied by the Jacobian of the layer's activation, clipped, and put in the
\* shape of the layer's output.
layer_delta(net, fwd, i, right, gradient_clip_norm) ==
    Bind(jacobian_mul(activation(net.hidden_layers[i]),
                      vector_2d(fwd.zs[i]).val, vector_2d(right).val),
         LAMBDA through : Bind(clip_norm_2d(through, gradient_clip_norm),
                               LAMBDA clipped : reshape(clipped, fwd.as_[i + 1].shape)))

\* The gradients of a layer put before those of the layers after it.
prepend_gradients(d, dels) ==
    [del_bs |-> <<d.del_b>> \o dels.del_bs, del_ws |-> <<d.del_w>> \o dels.del_ws]

\* The backward pass of _sgd_backpropagation from layer i down, delta being the
\* error signal of layer i; dels holds the gradients of the layers after i.
RECURSIVE backward_pass(_, _, _, _, _, _)
backward_pass(net, fwd, i, delta, gradient_clip_norm, dels) ==
    Bind(layer_derived_params(net.hidden_layers[i], fwd.as_[i], delta),
         LAMBDA d :
            IF i = 1 THEN Ok(prepend_gradients(d, dels))
            ELSE Bind(layer_backpropagate(net.hidden_layers[i], fwd.as_[i], delta),
                      LAMBDA back :
                         Bind(layer_delta(net, fwd, i - 1, back, gradient_clip_norm),
                              LAMBDA next :
                                 backward_pass(net, fwd, i - 1, next, gradient_clip_norm,
                                               prepend_gradients(d, dels)))))

\* _sgd_backpropagation(x, y, network, gradient_clip_norm), with the Quadratic cost
sgd_backpropagation(x, y, net, gradient_clip_norm) ==
    Bind(forward_pass(net, 1, <<x>>, <<>>),
         LAMBDA fwd :
            Bind(Quadratic_derived_eval(vector_2d(fwd.as_[Len(net.hidden_layers) + 1]).val,
                                        vector_2d(y).val),
                 LAMBDA dCda :
                    Bind(layer_delta(net, fwd, Len(net.hidden_layers), dCda,
                                     gradient_clip_norm),
                         LAMBDA delta :
                            backward_pass(net, fwd, Len(net.hidden_layers), delta,
                                          gradient_clip_norm,
                                          [del_bs |-> <<>>, del_ws |-> <<>>]))))

\* zip(a, b): as long as the shorter of the two
ZipLen(a, b) == IF Len(a) <= Len(b) THEN Len(a) ELSE Len(b)

\* A sequence of results as the result of the sequence: the first exception, if any.
Collect(results) ==
    IF \E i \in 1..Len(results) : ~results[i].ok
    THEN results[CHOOSE i \in 1..Len(results) :
                     ~results[i].ok /\ \A j \in 1..(i - 1) : results[j].ok]
    ELSE Ok([i \in 1..Len(results) |-> results[i].val])

\* [bi + dbi for bi, dbi in zip(del_bs, delta_del_bs)]
add_gradients(dels, delta_dels) ==
    Collect([i \in 1..ZipLen(dels, delta_dels) |-> real_add(dels[i], delta_dels[i])])

\* [bi + vec.reshape_lower(dbi, bi.shape).sum(axis=0) for bi, dbi in zip(del_bs, delta_del_bs)]
add_batched_gradients(dels, delta_dels) ==
    Collect([i \in 1..ZipLen(dels, delta_dels) |->
                Bind(reshape_lower(delta_dels[i], dels[i].shape),
                     LAMBDA lower : real_add(dels[i], sum_axis_0(lower)))])

\* The gradients summed over the mini-batch, averaged over its size.
average_gradients(del_bs, del_ws, mini_batch_n) ==
    [del_bs |-> [i \in 1..Len(del_bs) |-> scale(del_bs[i], Fraction(1, mini_batch_n))],
     del_ws |-> [i \in 1..Len(del_ws) |-> scale(del_ws[i], Fraction(1, mini_batch_n))]]

\* The zero gradients _mini_batch_sgd_backpropagation starts from.
zero_gradients(net) ==
    [del_bs |-> [i \in 1..Len(net.hidden_layers) |-> zeros_from(net.hidden_layers[i].bias)],
     del_ws |-> [i \in 1..Len(net.hidden_layers) |-> zeros_from(net.hidden_layers[i].weight)]]

\* The sum of the gradients so far and those of one more sample (the body of the
\* loop over workers.map).
accumulate(sums, result) ==
    Bind(add_gradients(sums.del_bs, result.del_bs),
         LAMBDA del_bs : Bind(add_gradients(sums.del_ws, result.del_ws),
                              LAMBDA del_ws : Ok([del_bs |-> del_bs, del_ws |-> del_ws])))

\* _mini_batch_sgd_backpropagation(bx, by, network, gradient_clip_norm, None):
\* the sequential, batched summation.
batched_backpropagation(bx, by, net, gradient_clip_norm) ==
    IF bx.shape[1] # by.shape[1] THEN Raise("AssertionError")
    ELSE Bind(sgd_backpropagation(bx, by, net, gradient_clip_norm),
              LAMBDA result :
                 Bind(add_batched_gradients(zero_gradients(net).del_bs, result.del_bs),
                      LAMBDA del_bs :
                         Bind(add_batched_gradients(zero_gradients(net).del_ws, result.del_ws),
                              LAMBDA del_ws :
                                 Ok(average_gradients(del_bs, del_ws, bx.shape[1])))))

\* The same with workers, when every worker returns what _sgd_backpropagation
\* computes for its sample: the results are summed in the order of the samples.
RECURSIVE sum_of_samples(_, _, _, _, _, _)
sum_of_samples(bx, by, net, gradient_clip_norm, k, sums) ==
    IF k > bx.shape[1] THEN Ok(sums)
    ELSE Bind(sgd_backpropagation(Item(bx, k - 1), Item(by, k - 1), net, gradient_clip_norm),
              LAMBDA result :
                 Bind(accumulate(sums, result),
                      LAMBDA next : sum_of_samples(bx, by, net, gradient_clip_norm,
                                                   k + 1, next)))

unbatched_backpropagation(bx, by, net, gradient_clip_norm) ==
    IF bx.shape[1] # by.shape[1] THEN Raise("AssertionError")
    ELSE Bind(sum_of_samples(bx, by, net, gradient_clip_norm, 1, zero_gradients(net)),
              LAMBDA sums : Ok(average_gradients(sums.del_bs, sums.del_ws, bx.shape[1])))

-----------------------------------------------------------------------------
(* Dataset: ordered (x, y) pairs served in mini-batches of batch_size, in a fixed
   order. *)

\* Dataset(xs, ys, batch_size); `shards` is the order in which split hands out
\* its sub-datasets.
Dataset(xs, ys, batch_size) ==
    [xs |-> xs, ys |-> ys, batch_size |-> batch_size, shards |-> "consecutive"]

\* A Dataset whose split hands out the same sub-datasets, the last one first.
DatasetSplitBackwards(xs, ys, batch_size) ==
    [Dataset(xs, ys, batch_size) EXCEPT !.shards = "backwards"]

\* len(dataset)
len(ds) == Len(ds.xs)

\* dataset.num_batches
num_batches(ds) == (len(ds) + ds.batch_size - 1) \div ds.batch_size

RECURSIVE Flatten(_)
Flatten(seqs) == IF seqs = <<>> THEN <<>> ELSE seqs[1] \o Flatten(Tail(seqs))

\* numpy.stack(samples) of one or more arrays of one shape
stack(samples) ==
    NewArray(<<Len(samples)>> \o samples[1].shape,
             Flatten([i \in 1..Len(samples) |-> Elements(samples[i])]),
             samples[1].dtype)

\* The k-th pair (bx, by) that dataset.batch_iter() yields (k from 1).
batch(ds, k) ==
    LET first == (k - 1) * ds.batch_size + 1
        last == IF k * ds.batch_size <= len(ds) THEN k * ds.batch_size ELSE len(ds)
    IN  [bx |-> stack(SubSeq(ds.xs, first, last)), by |-> stack(SubSeq(ds.ys, first, last))]

\* dataset.split(n): n disjoint sub-datasets of consecutive samples, the first
\* len % n of them one sample longer; their union is the dataset.  A
\* "consecutive" dataset returns them in the order of the samples, so that their
\* concatenation is the dataset; a "backwards" one returns the last first.
split(ds, n) ==
    LET q == len(ds) \div n
        r == len(ds) % n
        First(i) == (i - 1) * q + (IF i - 1 < r THEN i - 1 ELSE r) + 1
        Last(i) == First(i + 1) - 1
        Shard(i) == [ds EXCEPT !.xs = SubSeq(ds.xs, First(i), Last(i)),
                               !.ys = SubSeq(ds.ys, First(i), Last(i))]
    IN  [i \in 1..n |-> IF ds.shards = "consecutive" THEN Shard(i) ELSE Shard(n + 1 - i)]

-----------------------------------------------------------------------------
(* StochasticGradientDescent (optimizer.py). *)

\* StochasticGradientDescent(gradient_clip_norm, momentum, eta, lambba, num_workers);
\* `workers` tells whether a process pool was made.
StochasticGradientDescent(gradient_clip_norm, momentum, eta, lambba, num_workers) ==
    [num_workers |-> num_workers,
     workers |-> num_workers > 1,
     gradient_clip_norm |-> minimum(gradient_clip_norm, finfo_max),
     momentum |-> momentum,
     eta |-> eta,
     lambba |-> lambba,
     total_epochs |-> 0,
     v_biases |-> None,
     v_weights |-> None]

\* _prepare_param_velocities(network)
prepare_param_velocities(opt, net) ==
    [opt EXCEPT
        !.v_biases = IF opt.v_biases = None
                     THEN [i \in 1..Len(biases(net)) |-> zeros_from(biases(net)[i])]
                     ELSE opt.v_biases,
        !.v_weights = IF opt.v_weights = None
                      THEN [i \in 1..Len(weights(net)) |-> zeros_from(weights(net)[i])]
                      ELSE opt.v_weights]

\* The variant of the bias velocity that forgets the previous velocity.
bias_velocity_restarted(opt, vb, bi) == real_sub(scale(zeros_from(vb), opt.momentum), scale(bi, opt.eta))

\* vb * self._momentum - self._eta * bi
bias_velocity(opt, vb, bi) == real_sub(scale(vb, opt.momentum), scale(bi, opt.eta))

\* The variant of the weight velocity that decays the weight without dividing by
\* the size of the training set.
weight_velocity_undivided(opt, rcp_n, w, vw, wi) ==
    Bind(real_sub(scale(vw, opt.momentum), scale(w, RealMul(opt.eta, opt.lambba))),
         LAMBDA decayed : real_sub(decayed, scale(wi, opt.eta)))

\* vw * self._momentum - self._eta * self._lambba * rcp_n * w - self._eta * wi
weight_velocity(opt, rcp_n, w, vw, wi) ==
    Bind(real_sub(scale(vw, opt.momentum),
                  scale(w, RealMul(RealMul(opt.eta, opt.lambba), rcp_n))),
         LAMBDA decayed : real_sub(decayed, scale(wi, opt.eta)))

\* zip(a, b, c): as long as the shortest of the three
ZipLen3(a, b, c) == ZipLen(a, IF Len(b) <= Len(c) THEN b ELSE c)

\* The loop over zip(network.hidden_layers, new_biases, new_weights) from the i-th
\* triple on: each layer.update_params(new_b, new_w) in turn, until one raises.
RECURSIVE update_layers(_, _, _, _)
update_layers(layers, new_biases, new_weights, i) ==
    IF i > ZipLen3(layers, new_biases, new_weights)
    THEN [hidden_layers |-> layers, ret |-> Ok(None)]
    ELSE LET Continue(updated) ==
                 IF ~updated.ret.ok
                 THEN [hidden_layers |-> [layers EXCEPT ![i] = updated.layer],
                       ret |-> updated.ret]
                 ELSE update_layers([layers EXCEPT ![i] = updated.layer],
                                    new_biases, new_weights, i + 1)
         IN  Continue(update_params(layers[i], new_biases[i], new_weights[i]))

\* _param_update(del_bs, del_ws, network, num_training_samples): the optimizer
\* and the network after the call, and what the call returned.
param_update(opt, del_bs, del_ws, net, num_training_samples) ==
    LET rcp_n == Fraction(1, num_training_samples)
        Update(moved, new_biases, new_weights) ==
            IF ~new_biases.ok THEN [optimizer |-> moved, network |-> net, ret |-> new_biases]
            ELSE IF ~new_weights.ok
            THEN [optimizer |-> moved, network |-> net, ret |-> new_weights]
            ELSE LET Updated(updated) ==
                         [optimizer |-> moved,
                          network |-> [net EXCEPT !.hidden_layers = updated.hidden_layers],
                          ret |-> updated.ret]
                 IN  Updated(update_layers(net.hidden_layers, new_biases.val,
                                           new_weights.val, 1))
        Move(v_biases, v_weights) ==
            IF ~v_biases.ok THEN [optimizer |-> opt, network |-> net, ret |-> v_biases]
            ELSE IF ~v_weights.ok
            THEN [optimizer |-> [opt EXCEPT !.v_biases = v_biases.val], network |-> net,
                  ret |-> v_weights]
            ELSE Update([opt EXCEPT !.v_biases = v_biases.val, !.v_weights = v_weights.val],
                        Collect([i \in 1..ZipLen(biases(net), v_biases.val) |->
                                    real_add(biases(net)[i], v_biases.val[i])]),
                        Collect([i \in 1..ZipLen(weights(net), v_weights.val) |->
                                    real_add(weights(net)[i], v_weights.val[i])]))
    IN  Move(Collect([i \in 1..ZipLen(opt.v_biases, del_bs) |->
                         bias_velocity(opt, opt.v_biases[i], del_bs[i])]),
             Collect([i \in 1..ZipLen3(weights(net), opt.v_weights, del_ws) |->
                         weight_velocity(opt, rcp_n, weights(net)[i],
                                         opt.v_weights[i], del_ws[i])]))
-----------------------------------------------------------------------------
(* Inference over a dataset (optimizer.py). *)

\* y_hats[yi : yi + n] = values: the n rows assigned, the values broadcast to them.
assign_rows(values, n, row_shape) ==
    IF ~BroadcastsTo(values.shape, <<n>> \o row_shape) THEN Raise("ValueError")
    ELSE Ok([i \in 1..n |->
                NewArray(row_shape,
                         [q \in 1..Size(row_shape) |->
                             Load(values, BroadcastIndex(<<i - 1>> \o Unravel(q - 1, row_shape),
                                                         values.shape))],
                         real_dtype)])

\* The loop of _feedforward_dataset without workers, from the k-th mini-batch on:
\* the rows of y_hats, one per sample.
RECURSIVE feedforward_batches(_, _, _, _)
feedforward_batches(ds, net, k, y_hats) ==
    IF k > num_batches(ds) THEN Ok(y_hats)
    ELSE Bind(feedforward(net, batch(ds, k).bx),
              LAMBDA a :
                 Bind(assign_rows(a, batch(ds, k).bx.shape[1], ds.ys[1].shape),
                      LAMBDA rows : feedforward_batches(ds, net, k + 1, y_hats \o rows)))

\* _feedforward_dataset(dataset, network, is_training) with workers=None
feedforward_dataset(ds, net) == feedforward_batches(ds, net, 1, <<>>)

\* Quadratic.eval(a, y): half the squared norm of a - y
Quadratic_eval(a, y) ==
    Bind(real_sub(a, y),
         LAMBDA diff : Ok(RealMul(Fraction(1, 2),
                                  RealSum([n \in 1..Len(diff.data) |->
                                              RealMul(diff.data[n], diff.data[n])]))))

\* sum(np.linalg.norm(w) ** 2 for w in network.weights)
sum_w2(net) ==
    RealSum([i \in 1..Len(net.hidden_layers) |->
                RealSum([n \in 1..Len(weights(net)[i].data) |->
                            RealMul(weights(net)[i].data[n], weights(net)[i].data[n])])])

\* The rest of total_cost once y_hats is known.
cost_of(opt, ds, net, y_hats) ==
    Bind(Collect([i \in 1..ZipLen(ds.ys, y_hats) |->
                     Quadratic_eval(y_hats[i], vector_2d(ds.ys[i]).val)]),
         LAMBDA costs :
            Ok(RealAdd(RealMul(RealSum(costs), Fraction(1, len(ds))),
                       RealMul(RealMul(RealMul(opt.lambba, Fraction(1, len(ds))),
                                       Fraction(1, 2)),
                               sum_w2(net)))))

\* numpy.argmax of an array of reals: the first index (from 0) of the largest element
real_argmax(a) ==
    (CHOOSE i \in 1..Len(a.data) :
        /\ \A j \in 1..Len(a.data) : RealGeq(a.data[i], a.data[j])
        /\ \A j \in 1..(i - 1) : RealLess(a.data[j], a.data[i])) - 1

\* The rest of performance once y_hats is known.
performance_of(ds, y_hats) ==
    LET Answer(num_right_answers) ==
            Ok(<<num_right_answers, Fraction(num_right_answers, len(ds))>>)
    IN  Answer(Cardinality({i \in 1..ZipLen(ds.ys, y_hats) :
                               real_argmax(y_hats[i]) = real_argmax(ds.ys[i])}))

\* The variant of an inference call that counts the pass as an epoch of training.
inference_counted(opt, ds, net, fn, y_hats) ==
    [optimizer |-> [opt EXCEPT !.total_epochs = @ + 1], network |-> net,
     ret |-> IF fn = "total_cost" THEN cost_of(opt, ds, net, y_hats)
             ELSE performance_of(ds, y_hats)]

\* total_cost(dataset, network) and performance(dataset, network) once y_hats is
\* known: the optimizer and the network after the call, and what it returned.
inference(opt, ds, net, fn, y_hats) ==
    [optimizer |-> opt, network |-> net,
     ret |-> IF fn = "total_cost" THEN cost_of(opt, ds, net, y_hats)
             ELSE performance_of(ds, y_hats)]

-----------------------------------------------------------------------------
(* The trainer: a network, an optimizer and a training set are made, and the
   optimizer's methods are called one after the other.  With a worker pool the
   coordinating process hands out tasks, the workers run them in any order (or
   fail), and the coordinator takes the results in the order of the tasks. *)

\* Largest number of update_params calls one optimizer makes on the layers of its
\* network.
MaxLayerUpdates == 2
\* Largest number of layers of a network.
MaxLayers == 2
\* Number of samples of the training set.
NumSamples == 2

\* Layers a network is assembled from: three FullyConnected layers and a Pool
\* layer, for samples of two elements.
TrainLayers ==
    {WithActivation(FullyConnected(<<1, 1, 2>>, <<1, 2, 1>>, 2).val, "ReLU"),
     WithActivation(FullyConnected(<<1, 2, 1>>, <<1, 1, 1>>, 0).val, "Identity"),
     WithActivation(FullyConnected(<<1, 1, 2>>, <<1, 1, 1>>, 0).val, "Identity"),
     WithActivation(FullyConnected(<<1, 1, 1>>, <<1, 1, 1>>, 0).val, "ReLU"),
     WithActivation(Pool(<<1, 1, 2>>, <<1, 1, 2>>, "MAX", <<>>).val, "Identity")}

\* Network([...]) of any 1..MaxLayers of these layers, in any order.
Networks ==
    {Network(hidden_layers, "Quadratic") :
        hidden_layers \in UNION {Tuples(n, TrainLayers) : n \in 1..MaxLayers}}

\* StochasticGradientDescent(...): plain descent, and descent with momentum and
\* weight decay; without workers and with two.
Optimizers ==
    {StochasticGradientDescent(finfo_max, h[1], h[2], h[3], num_workers) :
        h \in {<<REAL_TYPE(0), REAL_TYPE(1), REAL_TYPE(0)>>,
               <<Fraction(1, 2), Fraction(1, 2), REAL_TYPE(1)>>},
        num_workers \in {0, 2}}

\* Training sets of NumSamples samples x of shape (1, 2, 1) with targets y of
\* shape (1, 1, 1), served in mini-batches of 1 or of 2.
Sample(seed, i) ==
    astype(NewArray(<<1, 2, 1>>, <<Val(seed, 2 * i) % 2, Val(seed, 2 * i + 1) % 2>>, real_dtype))
Target(seed, i) == astype(NewArray(<<1, 1, 1>>, <<Val(seed, i) % 2>>, real_dtype))
Datasets ==
    {Dataset([i \in 1..NumSamples |-> Sample(seed, i)],
             [i \in 1..NumSamples |-> Target(seed, i)], batch_size) :
        seed \in {1, 2}, batch_size \in {1, 2}}

TrainInit ==
    /\ network \in Networks
    /\ optimizer \in Optimizers
    /\ dataset \in Datasets
    /\ opc = "idle"
    /\ frame = NoCall
    /\ tasks = <<>>
    /\ oret = NoRet
    /\ matrix = NoMatrix
    /\ vpc = "off"
    /\ call = NoCall
    /\ ret = NoRet
    /\ LayersOff

\* optimizer.optimize(network, num_epochs, training_set): the velocities are
\* prepared and the first epoch begins.
CallOptimize ==
    /\ opc = "idle"
    /\ \E num_epochs \in 0..MaxLayerUpdates :
        /\ (optimizer.total_epochs + num_epochs) * num_batches(dataset)
               * Len(network.hidden_layers) <= MaxLayerUpdates
        /\ frame' = [fn |-> "optimize", num_epochs |-> num_epochs, epoch |-> 0, bi |-> 1,
                     k |-> 0, sums |-> None, dels |-> None, applied |-> <<>>,
                     entry |-> [network |-> network, optimizer |-> optimizer],
                     at_batch |-> None]
        /\ IF num_epochs = 0
           THEN opc' = "done" /\ oret' = Ok(None)
           ELSE opc' = "batch" /\ oret' = NoRet
    /\ optimizer' = prepare_param_velocities(optimizer, network)
    /\ UNCHANGED <<network, dataset, tasks, vecVars, layerVars>>

\* The tasks of workers.map(_sgd_backpropagation, ...): one per sample, each with
\* its copy of the network.
backpropagation_tasks(bx, by, net, gradient_clip_norm) ==
    [i \in 1..bx.shape[1] |->
        [fn |-> "_sgd_backpropagation", x |-> Item(bx, i - 1), y |-> Item(by, i - 1),
         network |-> net, gradient_clip_norm |-> gradient_clip_norm,
         state |-> "pending", result |-> NoRet]]

\* _mini_batch_param_update begins for the next mini-batch: without workers the
\* gradients are computed on the whole batch; with workers one task per sample is
\* handed to the pool.
StartMiniBatch ==
    /\ opc = "batch"
    /\ frame.bi <= num_batches(dataset)
    /\ LET Sequential(started, dels) ==
               /\ opc' = IF dels.ok THEN "update" ELSE "done"
               /\ oret' = IF dels.ok THEN oret ELSE dels
               /\ frame' = IF dels.ok THEN [started EXCEPT !.dels = dels.val] ELSE started
               /\ tasks' = tasks
           Start(b, started) ==
               IF b.bx.shape[1] # b.by.shape[1]
               THEN /\ opc' = "done"
                    /\ oret' = Raise("AssertionError")
                    /\ frame' = started
                    /\ tasks' = tasks
               ELSE IF ~optimizer.workers
               THEN Sequential(started,
                               batched_backpropagation(b.bx, b.by, network,
                                                       optimizer.gradient_clip_norm))
               ELSE /\ opc' = "gather"
                    /\ oret' = oret
                    /\ frame' = [started EXCEPT !.k = 1, !.sums = zero_gradients(network)]
                    /\ tasks' = backpropagation_tasks(b.bx, b.by, network,
                                                      optimizer.gradient_clip_norm)
       IN  Start(batch(dataset, frame.bi),
                 [frame EXCEPT !.at_batch = [network |-> network, optimizer |-> optimizer]])
    /\ UNCHANGED <<network, optimizer, dataset, vecVars, layerVars>>

\* The variant of the end of an epoch that does not count it.
epoch_done_uncounted(opt) == opt

\* self._total_epochs += 1
epoch_done(opt) == [opt EXCEPT !.total_epochs = @ + 1]

\* The mini-batches of the epoch are exhausted: the epoch is counted, and the next
\* one begins or optimize returns.
EndEpoch ==
    /\ opc = "batch"
    /\ frame.bi > num_batches(dataset)
    /\ optimizer' = epoch_done(optimizer)
    /\ IF frame.epoch + 1 = frame.num_epochs
       THEN /\ opc' = "done"
            /\ oret' = Ok(None)
            /\ frame' = [frame EXCEPT !.epoch = @ + 1]
       ELSE /\ opc' = "batch"
            /\ oret' = oret
            /\ frame' = [frame EXCEPT !.epoch = @ + 1, !.bi = 1]
    /\ UNCHANGED <<network, dataset, tasks, vecVars, layerVars>>

\* What a worker process makes of its task: it runs the function on its copy of
\* the arguments and the result (or the exception) is sent back.
run_task(t) ==
    [t EXCEPT !.state = "done",
              !.result = IF t.fn = "_sgd_backpropagation"
                         THEN sgd_backpropagation(t.x, t.y, t.network, t.gradient_clip_norm)
                         ELSE feedforward_dataset(t.dataset, t.network)]

\* A worker runs a task of the pool.
WorkerRun ==
    /\ \E i \in 1..Len(tasks) :
        /\ tasks[i].state = "pending"
        /\ tasks' = [tasks EXCEPT ![i] = run_task(tasks[i])]
    /\ UNCHANGED <<network, optimizer, dataset, opc, frame, oret, vecVars, layerVars>>

\* A worker process dies with its task: the pool reports the task as failed.
WorkerFail ==
    /\ \E i \in 1..Len(tasks) :
        /\ tasks[i].state = "pending"
        /\ tasks' = [tasks EXCEPT ![i] = [@ EXCEPT !.state = "done",
                                                   !.result = Raise("BrokenProcessPool")]]
    /\ UNCHANGED <<network, optimizer, dataset, opc, frame, oret, vecVars, layerVars>>

\* The variant of the coordinator's loop that leaves out a sample whose worker
\* failed.
take_result_skipping(opt, net, ds, f, result) ==
    IF ~result.ok
    THEN [optimizer |-> opt, network |-> net, frame |-> [f EXCEPT !.k = @ + 1], ret |-> Ok(None)]
    ELSE IF f.fn = "optimize"
    THEN LET Added(sums) ==
                 [optimizer |-> opt, network |-> net,
                  frame |-> IF sums.ok THEN [f EXCEPT !.k = @ + 1, !.sums = sums.val] ELSE f,
                  ret |-> sums]
         IN  Added(accumulate(f.sums, result.val))
    ELSE [optimizer |-> opt, network |-> net,
          frame |-> [f EXCEPT !.k = @ + 1, !.y_hats = @ \o result.val], ret |-> result]

\* The variant of the coordinator's loop that applies each sample's gradients to
\* the network as soon as they arrive.
take_result_applied(opt, net, ds, f, result) ==
    IF ~result.ok
    THEN [optimizer |-> opt, network |-> net, frame |-> f, ret |-> result]
    ELSE IF f.fn = "optimize"
    THEN LET Added(st, sums) ==
                 [optimizer |-> st.optimizer, network |-> st.network,
                  frame |-> IF sums.ok THEN [f EXCEPT !.k = @ + 1, !.sums = sums.val] ELSE f,
                  ret |-> sums]
         IN  Added(param_update(opt, result.val.del_bs, result.val.del_ws, net, len(ds)),
                   accumulate(f.sums, result.val))
    ELSE [optimizer |-> opt, network |-> net,
          frame |-> [f EXCEPT !.k = @ + 1, !.y_hats = @ \o result.val], ret |-> result]

\* The body of the coordinator's loop over workers.map(...) for one result: the
\* gradients of the sample are added to the sums, or the predictions of the shard
\* are appended; an exception of the worker is raised again.
take_result(opt, net, ds, f, result) ==
    IF ~result.ok
    THEN [optimizer |-> opt, network |-> net, frame |-> f, ret |-> result]
    ELSE IF f.fn = "optimize"
    THEN LET Added(sums) ==
                 [optimizer |-> opt, network |-> net,
                  frame |-> IF sums.ok THEN [f EXCEPT !.k = @ + 1, !.sums = sums.val] ELSE f,
                  ret |-> sums]
         IN  Added(accumulate(f.sums, result.val))
    ELSE [optimizer |-> opt, network |-> net,
          frame |-> [f EXCEPT !.k = @ + 1, !.y_hats = @ \o result.val], ret |-> result]

\* The coordinator takes the next result, in the order of the tasks.
Gather ==
    /\ opc = "gather"
    /\ frame.k <= Len(tasks)
    /\ tasks[frame.k].state = "done"
    /\ LET Taken(st) ==
               /\ optimizer' = st.optimizer
               /\ network' = st.network
               /\ frame' = st.frame
               /\ opc' = IF st.ret.ok THEN "gather" ELSE "done"
               /\ oret' = IF st.ret.ok THEN oret ELSE st.ret
               /\ tasks' = IF st.ret.ok THEN tasks ELSE <<>>
       IN  Taken(take_result(optimizer, network, dataset, frame, tasks[frame.k].result))
    /\ UNCHANGED <<dataset, vecVars, layerVars>>

\* Every result is in: the sums are averaged over the mini-batch, or the inference
\* call finishes on the predictions.
Reduce ==
    /\ opc = "gather"
    /\ frame.k > Len(tasks)
    /\ IF frame.fn = "optimize"
       THEN /\ frame' = [frame EXCEPT !.dels = average_gradients(frame.sums.del_bs,
                                                                 frame.sums.del_ws, Len(tasks))]
            /\ opc' = "update"
            /\ oret' = oret
            /\ UNCHANGED <<network, optimizer>>
       ELSE LET Finished(st) ==
                    /\ optimizer' = st.optimizer
                    /\ network' = st.network
                    /\ oret' = st.ret
                    /\ opc' = "done"
                    /\ frame' = frame
            IN  Finished(IF Len(frame.y_hats) # len(dataset)
                         THEN [optimizer |-> optimizer, network |-> network,
                               ret |-> Raise("AssertionError")]
                         ELSE inference(optimizer, dataset, network, frame.fn,
                                        frame.y_hats))
    /\ tasks' = <<>>
    /\ UNCHANGED <<dataset, vecVars, layerVars>>

\* self._param_update(del_bs, del_ws, network, len(training_set)), and on to the
\* next mini-batch.
ParamUpdate ==
    /\ opc = "update"
    /\ LET Updated(st) ==
               /\ optimizer' = st.optimizer
               /\ network' = st.network
               /\ opc' = IF st.ret.ok THEN "batch" ELSE "done"
               /\ oret' = IF st.ret.ok THEN oret ELSE st.ret
               /\ frame' = IF st.ret.ok
                           THEN [frame EXCEPT !.bi = @ + 1,
                                              !.applied = Append(@, <<frame.epoch + 1,
                                                                      frame.bi>>)]
                           ELSE frame
       IN  Updated(param_update(optimizer, frame.dels.del_bs, frame.dels.del_ws, network,
                                len(dataset)))
    /\ UNCHANGED <<dataset, tasks, vecVars, layerVars>>

\* The tasks of workers.map(_feedforward_dataset, ...): one per shard of the dataset.
feedforward_tasks(ds, net, num_workers) ==
    [i \in 1..num_workers |->
        [fn |-> "_feedforward_dataset", dataset |-> split(ds, num_workers)[i], network |-> net,
         state |-> "pending", result |-> NoRet]]

\* optimizer.total_cost(dataset, network) or optimizer.performance(dataset, network)
CallInference ==
    /\ opc = "idle"
    /\ \E fn \in {"total_cost", "performance"} :
        LET called == [fn |-> fn, k |-> 1, y_hats |-> <<>>,
                       entry |-> [network |-> network, optimizer |-> optimizer]]
            Finished(st) ==
                /\ optimizer' = st.optimizer
                /\ network' = st.network
                /\ oret' = st.ret
                /\ opc' = "done"
                /\ frame' = called
                /\ tasks' = tasks
            Inferred(y_hats) ==
                Finished(IF y_hats.ok
                         THEN inference(optimizer, dataset, network, fn, y_hats.val)
                         ELSE [optimizer |-> optimizer, network |-> network,
                               ret |-> y_hats])
        IN  IF ~optimizer.workers
            THEN Inferred(feedforward_dataset(dataset, network))
            ELSE /\ tasks' = feedforward_tasks(dataset, network, optimizer.num_workers)
                 /\ opc' = "gather"
                 /\ frame' = called
                 /\ oret' = oret
                 /\ UNCHANGED <<network, optimizer>>
    /\ UNCHANGED <<dataset, vecVars, layerVars>>

\* The call returns, and the next one can be made; an exception is caught by nobody
\* and ends the program.
TrainReturn ==
    /\ opc = "done"
    /\ opc' = IF oret.ok THEN "idle" ELSE "exit"
    /\ frame' = NoCall
    /\ oret' = NoRet
    /\ UNCHANGED <<network, optimizer, dataset, tasks, vecVars, layerVars>>

TrainNext ==
    \/ CallOptimize
    \/ StartMiniBatch
    \/ EndEpoch
    \/ WorkerRun
    \/ WorkerFail
    \/ Gather
    \/ Reduce
    \/ ParamUpdate
    \/ CallInference
    \/ TrainReturn

SpecTrain == TrainInit /\ [][TrainNext]_vars

-----------------------------------------------------------------------------
(* Claims about the trainer. *)

\* The layers of the network agree at every boundary.
ConsecutiveShapesAgree(net) ==
    \A i \in 1..(Len(net.hidden_layers) - 1) :
        net.hidden_layers[i].output_shape = net.hidden_layers[i + 1].input_shape

\* A call of optimize that applied at least one update, or an inference call, has
\* returned normally: the network was constructed and used.
NetworkUsed ==
    /\ opc = "done"
    /\ oret.ok
    /\ frame.fn = "optimize" => frame.applied # <<>>

(* C13: in every network that was constructed and used (a training call with at   *)
(* least one update, or an inference call, returned normally on it), the           *)
(* output_shape of each layer equals the input_shape of the next one.              *)
C13_ConsecutiveShapes == NetworkUsed => ConsecutiveShapesAgree(network)

\* A parameter update is written: the step from "update" to the next mini-batch.
UpdateStep == opc = "update" /\ opc' = "batch"

\* The mini-batch the optimizer is working on.
CurrentBatch == batch(dataset, frame.bi)

\* The element-wise sum of sequences of reals of one length, and its n-th part.
AddData(a, b) == [e \in 1..Len(a) |-> RealAdd(a[e], b[e])]
RECURSIVE SumOfData(_)
SumOfData(datas) ==
    IF Len(datas) = 1 THEN datas[1] ELSE AddData(datas[1], SumOfData(Tail(datas)))
MeanOfData(sum, n) == [e \in 1..Len(sum) |-> RealMul(sum[e], Fraction(1, n))]

\* The gradients of each sample of a mini-batch on its own, for the network as it is.
GradientsOfSamples(b) ==
    [k \in 1..b.bx.shape[1] |->
        sgd_backpropagation(Item(b.bx, k - 1), Item(b.by, k - 1), network,
                            optimizer.gradient_clip_norm).val]

\* The mean over the samples of one of their gradients of the i-th layer.
MeanGradient(per_sample, which, i) ==
    MeanOfData(SumOfData([k \in 1..Len(per_sample) |-> per_sample[k][which][i].data]),
               Len(per_sample))

\* v*momentum - eta*lambda/N*w - eta*d, element by element (lambda = 0 gives the
\* formula of the bias velocity).
Velocity(v, w, d, lambda, N) ==
    [e \in 1..Len(v) |->
        RealSub(RealSub(RealMul(v[e], optimizer.momentum),
                        RealMul(RealMul(RealMul(optimizer.eta, lambda), Fraction(1, N)), w[e])),
                RealMul(optimizer.eta, d[e]))]

Moved(p, v) == [e \in 1..Len(p) |-> RealAdd(p[e], v[e])]

(* C14: a parameter update leaves, for every layer, the velocities                  *)
(* v_b*momentum - eta*db and v_w*momentum - eta*lambda/N*w - eta*dw, where db and   *)
(* dw are the means of the samples' gradients over the mini-batch, N is the size of *)
(* the training set and v_b, v_w are the velocities before the update; and the      *)
(* layer's bias and weight become b + v_b and w + v_w with the new velocities. The  *)
(* velocities are zero when they are made and no other step changes them.          *)
C14_MomentumUpdate ==
    [][/\ (optimizer.v_biases = None /\ optimizer'.v_biases # None) =>
            \A i \in 1..Len(network.hidden_layers) :
                /\ optimizer'.v_biases[i] = zeros_from(network.hidden_layers[i].bias)
                /\ optimizer'.v_weights[i] = zeros_from(network.hidden_layers[i].weight)
       /\ (optimizer.v_biases # None /\ opc # "update") =>
            /\ optimizer'.v_biases = optimizer.v_biases
            /\ optimizer'.v_weights = optimizer.v_weights
       /\ UpdateStep =>
        \A per_sample \in {GradientsOfSamples(CurrentBatch)} :
        \A i \in 1..Len(network.hidden_layers) :
        \A db \in {MeanGradient(per_sample, "del_bs", i)} :
        \A dw \in {MeanGradient(per_sample, "del_ws", i)} :
        \A v_b \in {Velocity(optimizer.v_biases[i].data, network.hidden_layers[i].bias.data,
                             db, REAL_TYPE(0), len(dataset))} :
        \A v_w \in {Velocity(optimizer.v_weights[i].data, network.hidden_layers[i].weight.data,
                             dw, optimizer.lambba, len(dataset))} :
            /\ optimizer'.v_biases[i].data = v_b
            /\ optimizer'.v_weights[i].data = v_w
            /\ network'.hidden_layers[i].bias.data = Moved(network.hidden_layers[i].bias.data, v_b)
            /\ network'.hidden_layers[i].weight.data
                   = Moved(network.hidden_layers[i].weight.data, v_w)]_vars

\* The second update of a run with momentum and weight decay was written, on a
\* training set larger than the mini-batch, and left velocities other than zero.
C14_Witness ==
    /\ opc = "batch"
    /\ frame.fn = "optimize"
    /\ Len(frame.applied) = 2
    /\ optimizer.momentum # REAL_TYPE(0)
    /\ optimizer.lambba # REAL_TYPE(0)
    /\ dataset.batch_size < len(dataset)
    /\ \E e \in 1..Len(optimizer.v_weights[1].data) :
          optimizer.v_weights[1].data[e] # REAL_TYPE(0)

\* The mini-batches of num_epochs passes over a training set of n batches, as
\* <<pass, place in batch_iter()>>, in the order in which they are served.
MiniBatchesInOrder(num_epochs, n) ==
    [j \in 1..(num_epochs * n) |-> <<((j - 1) \div n) + 1, ((j - 1) % n) + 1>>]

\* optimize is running or has just finished.
Optimizing == opc \in {"batch", "gather", "update", "done"} /\ frame.fn = "optimize"

\* The mini-batches served before the one the optimizer is at.
ServedBefore == frame.epoch * num_batches(dataset) + (frame.bi - 1)

(* C15: while optimize runs, the updates written so far are those of the            *)
(* mini-batches served so far, one each and in the order of batch_iter(), pass      *)
(* after pass; the gradients of a mini-batch are computed (in the coordinator or in *)
(* the workers) on the network that holds every earlier update; and when optimize   *)
(* returns, there were num_epochs passes with one update for each mini-batch, and   *)
(* total_epochs has grown by num_epochs.                                            *)
C15_OptimizeEpochs ==
    Optimizing =>
        /\ Len(frame.applied) <= frame.num_epochs * num_batches(dataset)
        /\ frame.applied = SubSeq(MiniBatchesInOrder(frame.num_epochs, num_batches(dataset)),
                                  1, Len(frame.applied))
        /\ opc \in {"batch", "gather", "update"} =>
              /\ Len(frame.applied) = ServedBefore
              /\ optimizer.total_epochs = frame.entry.optimizer.total_epochs + frame.epoch
        /\ opc \in {"gather", "update"} =>
              /\ network = frame.at_batch.network
              /\ \A k \in 1..Len(tasks) : tasks[k].network = network
        /\ (opc = "done" /\ oret.ok) =>
              /\ frame.epoch = frame.num_epochs
              /\ frame.applied = MiniBatchesInOrder(frame.num_epochs, num_batches(dataset))
              /\ optimizer.total_epochs
                    = frame.entry.optimizer.total_epochs + frame.num_epochs

\* optimize returned after at least two parameter updates.
C15_Witness ==
    /\ opc = "done"
    /\ frame.fn = "optimize"
    /\ oret.ok
    /\ Len(frame.applied) >= 2

\* total_cost or performance is running or has just finished.
Inferring == opc \in {"gather", "done"} /\ frame.fn \in {"total_cost", "performance"}

\* The parameters of the layers, and the velocities and the epoch count of the
\* optimizer.
Parameters(net) ==
    [i \in 1..Len(net.hidden_layers) |->
        <<net.hidden_layers[i].bias, net.hidden_layers[i].weight>>]
Velocities(opt) == <<opt.v_biases, opt.v_weights>>

(* C17: during and after total_cost(dataset, network) and                           *)
(* performance(dataset, network), without workers and with them, every layer's bias *)
(* and weight, the velocities of the optimizer and its total_epochs are what they   *)
(* were when the call was made.                                                     *)
C17_InferenceKeepsState ==
    Inferring =>
        /\ Parameters(network) = Parameters(frame.entry.network)
        /\ Velocities(optimizer) = Velocities(frame.entry.optimizer)
        /\ optimizer.total_epochs = frame.entry.optimizer.total_epochs

\* total_cost returned a value from the worker pool for a network that was trained
\* before.
C17_Witness ==
    /\ opc = "done"
    /\ frame.fn = "total_cost"
    /\ oret.ok
    /\ optimizer.workers
    /\ optimizer.total_epochs >= 1

(* C18: when the averaged gradients of a mini-batch are ready, they are what the    *)
(* sequential batched path of _mini_batch_sgd_backpropagation yields for the        *)
(* network and the mini-batch, and what the worker path (one sample per task, the   *)
(* gradients summed by the coordinator) yields for them.                            *)
C18_PathsAgree ==
    (Optimizing /\ opc = "update") =>
        /\ batched_backpropagation(CurrentBatch.bx, CurrentBatch.by, network,
                                   optimizer.gradient_clip_norm) = Ok(frame.dels)
        /\ unbatched_backpropagation(CurrentBatch.bx, CurrentBatch.by, network,
                                     optimizer.gradient_clip_norm) = Ok(frame.dels)

\* A task of the running mini-batch has failed in its worker.
SampleFailed ==
    /\ opc = "gather"
    /\ frame.fn = "optimize"
    /\ \E k \in 1..Len(tasks) : tasks[k].state = "done" /\ ~tasks[k].result.ok

(* C19: once the backward pass of a sample has failed in a worker, the mini-batch   *)
(* never reaches its parameter update: the coordinator goes on receiving results    *)
(* until it meets the failure, which then leaves the call as its exception; and in  *)
(* every step until then the biases and weights of the layers and the velocities    *)
(* stay what they were when the mini-batch began.                                   *)
C19_WorkerFailureAborts ==
    [][SampleFailed =>
        /\ opc' \in {"gather", "done"}
        /\ opc' = "done" => ~oret'.ok
        /\ Parameters(network') = Parameters(frame.at_batch.network)
        /\ Velocities(optimizer') = Velocities(frame.at_batch.optimizer)]_vars

\* The second sample of a mini-batch failed after the gradients of the first one
\* were added to the sums, in a run that had written an update before.
C19_Witness ==
    /\ opc = "done"
    /\ frame.fn = "optimize"
    /\ ~oret.ok
    /\ optimizer.workers
    /\ frame.k = 2
    /\ Len(frame.applied) >= 1

(* C20: while the tasks of a parallel phase are out (backward passes of samples or  *)
(* feedforwards of shards), no step changes a bias, a weight or a velocity; what    *)
(* changes them is the coordinator's parameter update, when no task is out, or the  *)
(* making of the velocities at the start of optimize.                               *)
C20_WorkersDoNotMutate ==
    [][/\ opc = "gather" =>
            /\ Parameters(network') = Parameters(network)
            /\ Velocities(optimizer') = Velocities(optimizer)
       /\ (Parameters(network') # Parameters(network)
              \/ Velocities(optimizer') # Velocities(optimizer)) =>
            \/ opc = "update" /\ tasks = <<>>
            \/ opc = "idle" /\ optimizer.v_biases = None /\ tasks = <<>>]_vars

\* The coordinator has received the first sample's gradients while the second
\* task is still with its worker.
C20_Witness ==
    /\ opc = "gather"
    /\ frame.fn = "optimize"
    /\ frame.k = 2
    /\ Len(tasks) = 2
    /\ tasks[2].state = "pending"
    /\ frame.sums # zero_gradients(network)

-----------------------------------------------------------------------------
(* Claim C27. *)

(* C27: the bias and the weight of a FullyConnected layer have the real dtype in  *)
(* every reachable state, and an update_params call that offers a tensor of       *)
(* another dtype is rejected at that call.                                        *)
C27_ParametersKeepRealType ==
    layer.kind = "FullyConnected" =>
        /\ layer.bias.dtype = real_dtype
        /\ layer.weight.dtype = real_dtype
        /\ (/\ lcall.fn = "update_params"
            /\ \/ lcall.bias.dtype # real_dtype
               \/ lcall.weight.dtype # real_dtype)
           => ~lret.ok

-----------------------------------------------------------------------------
(* Claim C26. *)

(* C26: in Pool.backpropagate the writeable window view of dC/dx is written       *)
(* through regions that do not overlap: for every Pool layer that can be          *)
(* constructed, no element of dC/dx belongs to the windows of two different       *)
(* output positions.                                                              *)
C26_WriteRegionsDisjoint ==
    (lcall.fn = "backpropagate" /\ lret.ok)
    => \A m, n \in 1..Size(layer.output_shape) :
           m # n => PoolWindowAddresses(m) \cap PoolWindowAddresses(n) = {}

-----------------------------------------------------------------------------
(* Claim C29. *)

(* C29: every element that can be addressed through the view sliding_window_view  *)
(* returns lies inside the matrix: for every window position i and in-window      *)
(* offset w, i*s + w <= m - 1 in each windowed dimension (m the matrix dimension, *)
(* s the stride), and so its address is in the matrix's buffer; when the window   *)
(* exceeds the matrix in some dimension the view has no element at all.  A call   *)
(* whose window or stride does not fit the matrix returns no view.                *)
C29_WindowViewInBounds ==
    call.fn = "sliding_window_view" =>
        IF KernelFits(call.window_shape, call.stride_shape)
        THEN LET nd == Len(call.window_shape)
                 rank == Len(matrix.shape)
             IN  /\ ret.ok
                 /\ \A n \in 1..Size(ret.val.shape) :
                        LET idx == Unravel(n - 1, ret.val.shape)
                        IN  /\ \A t \in 1..nd :
                                   /\ idx[rank - nd + t] * StrideAt(call.stride_shape, t)
                                          + idx[rank + t]
                                      <= AlignedDim(call.window_shape, t) - 1
                                   /\ idx[rank + t] < call.window_shape[t]
                            /\ InBuffer(ret.val, Addr(ret.val, idx))
                 /\ (\E t \in 1..nd : call.window_shape[t] > AlignedDim(call.window_shape, t))
                    => Size(ret.val.shape) = 0 /\ Addresses(ret.val) = {}
        ELSE ~ret.ok

\* C29's case: windows placed at a stride above 1, the last of which ends on the
\* last element of the matrix, and a second dimension in which the windows do not
\* reach the end of the matrix.
C29_Witness ==
    /\ call.fn = "sliding_window_view"
    /\ ret.ok
    /\ matrix.shape = <<3, 3>>
    /\ call.window_shape = <<1, 2>>
    /\ call.stride_shape = <<2, 2>>
    /\ ret.val.shape = <<2, 1, 1, 2>>
    /\ Addresses(ret.val) = {0, 1, 6, 7}

-----------------------------------------------------------------------------
(* Claim C28. *)

\* The dilation of the call has no padding.
Unpadded == \A t \in 1..Len(call.pad_shape) : call.pad_shape[t] = 0

\* The kernel that sums a window of the extent of the stride in every dilated
\* dimension: numpy.ones(stride).
WindowSumKernel(stride_shape, pad_shape, dtype) ==
    NewArray(broadcast_arrays(stride_shape, pad_shape).val[1],
             [n \in 1..Size(broadcast_arrays(stride_shape, pad_shape).val[1]) |-> 1], dtype)

\* The way back of the round trip: the dilated matrix correlated at stride 1 with
\* the window-sum kernel.
Undilated ==
    correlate(ret.val, WindowSumKernel(call.stride_shape, call.pad_shape, matrix.dtype),
              <<1>>, 0)

\* Where matrix index i lies in the dilated matrix: (leading..., i1*s1, ..., in*sn).
SamplePosition(i) ==
    LET nlead == Len(matrix.shape) - DilationDims(call.stride_shape, call.pad_shape)
    IN  [t \in 1..Len(i) |->
            IF t <= nlead THEN i[t] ELSE i[t] * StrideAt(call.stride_shape, t - nlead)]

(* C28: for a matrix m and a stride s >= 1 (per dimension), correlating            *)
(* dilate(m, s) at stride 1 with the all-ones kernel of the extent of the stride  *)
(* gives, at every sample position i*s whose window lies inside the dilated       *)
(* matrix, exactly m[i]; the samples whose window would pass the edge (the last   *)
(* one of a dimension with s > 1) have no position in the result.                 *)
C28_DilationRoundTrip ==
    (/\ call.fn = "dilate"
     /\ DilationFits(call.stride_shape, call.pad_shape)
     /\ Unpadded)
    => /\ ret.ok
       /\ \A back \in {Undilated} :
            /\ back.ok
            /\ \A n \in 1..Size(matrix.shape) :
                 LET i == Unravel(n - 1, matrix.shape)
                 IN  IF IsIndex(SamplePosition(i), back.val.shape)
                     THEN ElementAt(back.val, SamplePosition(i)) = MatrixAt(i)
                     ELSE \E t \in 1..Len(i) :
                             /\ i[t] = matrix.shape[t] - 1
                             /\ SamplePosition(i)[t] + 1 > back.val.shape[t]

\* C28's case: a 2-D matrix of distinct elements dilated by a stride of 2 in one
\* dimension and 1 in the other; the way back recovers the first two columns.
C28_Witness ==
    /\ call.fn = "dilate"
    /\ ret.ok
    /\ Unpadded
    /\ matrix.shape = <<2, 3>>
    /\ matrix.data = <<1, 2, 3, 4, 5, 6>>
    /\ call.stride_shape = <<1, 2>>
    /\ ret.val.shape = <<2, 5>>
    /\ Undilated.ok
    /\ Undilated.val.shape = <<2, 4>>
    /\ Elements(Undilated.val) = <<1, 2, 2, 3, 4, 5, 5, 6>>

-----------------------------------------------------------------------------
(* model/layer.py: Convolution.derived_params and Convolution.backpropagate. *)

\* delta.sum(axis=(-2, -1), keepdims=True, dtype=com.real_type) of a C-contiguous
\* array
sum_spatial(delta) ==
    LET n == delta.shape[Len(delta.shape) - 1] * delta.shape[Len(delta.shape)]
        shape == Lead(delta.shape, 2) \o <<1, 1>>
    IN  NewArray(shape,
                 [q \in 1..Size(shape) |-> SeqSum(SubSeq(delta.data, (q - 1) * n + 1, q * n))],
                 real_dtype)

\* a[np.newaxis, i, ...]
new_axis_item(a, i) ==
    IF i >= a.shape[1] THEN Raise("IndexError")
    ELSE Ok(NewArray(<<1>> \o Tail(a.shape), Item(a, i).data, a.dtype))

\* target[i] = value, for a target whose items have the given shape: the value is
\* broadcast to the item.
assign_item(shape, value, dtype) ==
    IF ~BroadcastsTo(value.shape, shape) THEN Raise("ValueError")
    ELSE Ok(NewArray(shape,
                     [q \in 1..Size(shape) |->
                         Load(value, BroadcastIndex(Unravel(q - 1, shape), value.shape))],
                     dtype))

\* a += c: c is broadcast to a, whose shape stays.
iadd(a, c) ==
    IF BroadcastShapes(a.shape, c.shape) # Ok(a.shape) THEN Raise("ValueError")
    ELSE add(a, c)

\* numpy.flip(k, axis=(-3, -2, -1)) of a kernel k of rank 3: every axis reversed
flip(k) == [k EXCEPT !.data = [n \in 1..Len(k.data) |-> k.data[Len(k.data) + 1 - n]]]

\* A faulty loop of Convolution.derived_params: the dilated gradient is applied
\* reversed (a convolution).
Convolution_del_w_flipped(l, x, dilated_delta) ==
    [output_channel \in 1..l.output_shape[Len(l.output_shape) - 2] |->
        Bind(new_axis_item(dilated_delta, output_channel - 1),
             LAMBDA d : Bind(correlate_flipped(x, d, <<1>>, 0),
                             LAMBDA c : assign_item(Tail(l.weight.shape), c,
                                                    l.weight.dtype)))]

\* The loop of Convolution.derived_params over the output channels:
\* del_w[output_channel] = correlate(x, dilated_delta[np.newaxis, output_channel, ...])
Convolution_del_w(l, x, dilated_delta) ==
    [output_channel \in 1..l.output_shape[Len(l.output_shape) - 2] |->
        Bind(new_axis_item(dilated_delta, output_channel - 1),
             LAMBDA d : Bind(correlate(x, d, <<1>>, 0),
                             LAMBDA c : assign_item(Tail(l.weight.shape), c,
                                                    l.weight.dtype)))]

\* Convolution.derived_params(x, delta): (del_b, del_w)
Convolution_derived_params(l, x, delta) ==
    Bind(reshape(x, l.input_shape), LAMBDA xr :
    Bind(reshape(delta, l.output_shape), LAMBDA dr :
    Bind(reshape(sum_spatial(dr), l.bias.shape), LAMBDA del_b :
    Bind(dilate(dr, l.stride_shape, <<0>>), LAMBDA dilated_delta :
    Bind(Collect(Convolution_del_w(l, xr, dilated_delta)), LAMBDA channels :
         Ok([del_b |-> del_b,
             del_w |-> NewArray(l.weight.shape, Concatenate(channels),
                                l.weight.dtype)]))))))

\* The loop of Convolution.backpropagate from output channel f on:
\* dCdx += correlate(dilated_delta[np.newaxis, f, ...], reversed_k[f])
RECURSIVE Convolution_dCdx(_, _, _, _)
Convolution_dCdx(l, dilated_delta, dCdx, f) ==
    IF f > l.output_shape[Len(l.output_shape) - 2] THEN Ok(dCdx)
    ELSE Bind(new_axis_item(dilated_delta, f - 1), LAMBDA d :
         Bind(correlate(d, flip(Item(l.weight, f - 1)), <<1>>, 0), LAMBDA c :
         Bind(iadd(dCdx, c), LAMBDA next :
              Convolution_dCdx(l, dilated_delta, next, f + 1))))

\* Convolution.backpropagate(x, delta): dC/dx in vector form
Convolution_backpropagate(l, x, delta) ==
    IF delta.dtype # real_dtype THEN Raise("AssertionError")
    ELSE Bind(reshape(delta, l.output_shape), LAMBDA dr :
         Bind(dilate(dr, l.stride_shape,
                     [i \in 1..Len(l.kernel_shape) |-> l.kernel_shape[i] - 1]),
              LAMBDA dilated_delta :
         Bind(Convolution_dCdx(l, dilated_delta, zeros(l.input_shape, delta.dtype), 1),
              LAMBDA dCdx : reshape(dCdx, input_vector_shape(l)))))

-----------------------------------------------------------------------------
(* Convolution layers under test: a Convolution layer is constructed (its input   *)
(* up to one larger than the other layers', so that a stride above 1 can give     *)
(* more than one output position), and each step asks it for the gradients of its *)
(* parameters or passes an upstream gradient back through it.                     *)

ConvInputShapes == {<<c, h, w>> : c \in Channels, h \in 1..(MaxSide + 1), w \in 1..(MaxSide + 1)}
\* Families of the values of the input.
ConvSeeds == {1, 2}

ConvLayersUnderTest ==
    {Convolution(t[1], t[2], t[3], t[4], t[5]).val :
        t \in {u \in ConvInputShapes \X LayerKernelShapes \X Channels \X LayerStrideShapes
                     \X ParamSeeds :
                  Convolution(u[1], u[2], u[3], u[4], u[5]).ok}}

\* The upstream gradient of the layer's output: 1, -2, 3, -4, ...
ConvDelta(l, dtype) ==
    NewArray(output_vector_shape(l),
             [n \in 1..Size(l.output_shape) |-> IF n % 2 = 1 THEN n ELSE 0 - n], dtype)

ConvInit ==
    /\ layer \in ConvLayersUnderTest
    /\ lpc = "idle"
    /\ lcall = NoCall
    /\ lret = NoRet
    /\ matrix = NoMatrix
    /\ vpc = "off"
    /\ call = NoCall
    /\ ret = NoRet
    /\ TrainOff

\* layer.derived_params(x, delta)
CallConvDerivedParams ==
    /\ lpc = "idle"
    /\ \E seed \in ConvSeeds :
        /\ lcall' = [fn |-> "derived_params",
                     x |-> standard_normal(input_vector_shape(layer), seed),
                     delta |-> ConvDelta(layer, real_dtype)]
        /\ lret' = Convolution_derived_params(layer,
                        standard_normal(input_vector_shape(layer), seed),
                        ConvDelta(layer, real_dtype))
    /\ lpc' = "done"
    /\ UNCHANGED <<layer, vecVars, trainVars>>

\* layer.backpropagate(x, delta), with delta of the real dtype or of float64
CallConvBackpropagate ==
    /\ lpc = "idle"
    /\ \E seed \in ConvSeeds, dtype \in {real_dtype, "float64"} :
        /\ lcall' = [fn |-> "backpropagate",
                     x |-> standard_normal(input_vector_shape(layer), seed),
                     delta |-> ConvDelta(layer, dtype)]
        /\ lret' = Convolution_backpropagate(layer,
                        standard_normal(input_vector_shape(layer), seed),
                        ConvDelta(layer, dtype))
    /\ lpc' = "done"
    /\ UNCHANGED <<layer, vecVars, trainVars>>

ConvNext ==
    \/ CallConvDerivedParams
    \/ CallConvBackpropagate
    \/ LayerReturn

SpecConv == ConvInit /\ [][ConvNext]_vars

-----------------------------------------------------------------------------
(* Properties of the backward pass of Convolution. *)

\* The kernel is no larger than the input.
KernelWithinInput ==
    /\ layer.kernel_shape[2] <= layer.input_shape[2]
    /\ layer.kernel_shape[3] <= layer.input_shape[3]

\* The stride divides input_dim - kernel_dim in both dimensions: the last window
\* ends on the last row and on the last column of the input.
StrideDivides ==
    /\ (layer.input_shape[2] - layer.kernel_shape[2]) % layer.stride_shape[2] = 0
    /\ (layer.input_shape[3] - layer.kernel_shape[3]) % layer.stride_shape[3] = 0

\* delta[f, i, j], x[c, p, q] and weight[f, c, a, b] of the call.
DeltaAt(f, i, j) == lcall.delta.data[Ravel(<<f, i, j>>, layer.output_shape) + 1]
XAt(c, p, q) == lcall.x.data[Ravel(<<c, p, q>>, layer.input_shape) + 1]
WeightAt(f, c, a, b) == layer.weight.data[Ravel(<<f, c, a, b>>, layer.weight.shape) + 1]

\* The sum of Term(i, j) over the output positions (i, j) of the layer, row by row.
SumOverOutput(Term(_, _)) ==
    SeqSum([n \in 1..(layer.output_shape[2] * layer.output_shape[3]) |->
               Term((n - 1) \div layer.output_shape[3], (n - 1) % layer.output_shape[3])])

-----------------------------------------------------------------------------
(* Claims C25 and C30. *)

\* The sum over the output features f and output positions (i, j) of
\* delta[f, i, j] * weight[f, c, p - i*sy, q - j*sx], wherever that kernel index is
\* in range.
InputGradient(c, p, q) ==
    SeqSum([g \in 1..layer.output_shape[1] |->
        SumOverOutput(LAMBDA i, j :
            LET a == p - i * layer.stride_shape[2]
                b == q - j * layer.stride_shape[3]
            IN  IF /\ a >= 0 /\ a < layer.kernel_shape[2]
                   /\ b >= 0 /\ b < layer.kernel_shape[3]
                THEN DeltaAt(g - 1, i, j) * WeightAt(g - 1, c, a, b)
                ELSE 0)])

\* A backpropagate call with a gradient of the real dtype on a layer whose kernel
\* is no larger than its input.
BackpropagateCalled ==
    /\ lcall.fn = "backpropagate"
    /\ lcall.delta.dtype = real_dtype
    /\ KernelWithinInput

(* C25: backpropagate of a Convolution layer returns dC/dx with                    *)
(* dC/dx[c, p, q] = the sum over the features f and the output positions (i, j)   *)
(* of delta[f, i, j] * weight[f, c, p - i*sy, q - j*sx] wherever that kernel      *)
(* index is in range (the stride-1 correlation of the dilated, zero-padded delta  *)
(* with the spatially flipped kernel, summed over the output features).           *)
C25_ConvolutionInputGradient ==
    BackpropagateCalled
    => /\ lret.ok
       /\ lret.val.shape = input_vector_shape(layer)
       /\ \A c \in 0..(layer.input_shape[1] - 1),
             p \in 0..(layer.input_shape[2] - 1),
             q \in 0..(layer.input_shape[3] - 1) :
              lret.val.data[Ravel(<<c, p, q>>, layer.input_shape) + 1]
                  = InputGradient(c, p, q)

(* C30: for every Convolution layer that can be constructed with a kernel no      *)
(* larger than its input (any number of input channels, any stride, dividing      *)
(* input_dim - kernel_dim or not), derived_params returns a weight gradient of    *)
(* the shape of the layer's weight and backpropagate returns a dC/dx of the       *)
(* layer's input_vector_shape, without a shape error.                             *)
C30_ConvolutionGradientShapes ==
    /\ (lcall.fn = "derived_params" /\ KernelWithinInput)
       => lret.ok /\ lret.val.del_w.shape = layer.weight.shape
    /\ BackpropagateCalled
       => lret.ok /\ lret.val.shape = input_vector_shape(layer)

-----------------------------------------------------------------------------
(* One optimizer used on more than one network: between two calls the trainer may
   hand the optimizer another, newly made network. *)

\* Networks the trainer makes: one of two layers and one of a single layer, for
\* the same samples.
RetrainNetworks ==
    {Network(<<WithActivation(FullyConnected(<<1, 1, 2>>, <<1, 2, 1>>, 2).val, "ReLU"),
               WithActivation(FullyConnected(<<1, 2, 1>>, <<1, 1, 1>>, 0).val, "Identity")>>,
             "Quadratic"),
     Network(<<WithActivation(FullyConnected(<<1, 1, 2>>, <<1, 1, 1>>, 0).val, "Identity")>>,
             "Quadratic")}

RetrainInit ==
    /\ network \in RetrainNetworks
    /\ optimizer \in Optimizers
    /\ dataset \in Datasets
    /\ opc = "idle"
    /\ frame = NoCall
    /\ tasks = <<>>
    /\ oret = NoRet
    /\ matrix = NoMatrix
    /\ vpc = "off"
    /\ call = NoCall
    /\ ret = NoRet
    /\ LayersOff

\* The next call of the optimizer is given another network than the last one.
ChangeNetwork ==
    /\ opc = "idle"
    /\ network' \in RetrainNetworks \ {network}
    /\ UNCHANGED <<optimizer, dataset, opc, frame, tasks, oret, vecVars, layerVars>>

RetrainNext ==
    \/ TrainNext
    \/ ChangeNetwork

SpecRetrain == RetrainInit /\ [][RetrainNext]_vars

\* C23: whenever the optimizer applies a mini-batch update to a network, it holds
\* exactly one velocity for each layer's bias and one for each layer's weight, of
\* the same shape as that parameter -- also when the optimizer was used on another
\* network before.
C23_VelocitiesMatchNetwork ==
    opc = "update" =>
        /\ Len(optimizer.v_biases) = Len(biases(network))
        /\ Len(optimizer.v_weights) = Len(weights(network))
        /\ \A i \in 1..Len(network.hidden_layers) :
            /\ optimizer.v_biases[i].shape = biases(network)[i].shape
            /\ optimizer.v_weights[i].shape = weights(network)[i].shape

-----------------------------------------------------------------------------
(* Inference over the shards of a dataset whose split keeps the contract (disjoint
   sub-datasets whose union is the dataset) in either order. *)

\* Training sets as in Datasets, of either order of shards.
ShardedDatasets ==
    Datasets \cup
    {DatasetSplitBackwards([i \in 1..NumSamples |-> Sample(seed, i)],
                           [i \in 1..NumSamples |-> Target(seed, i)], batch_size) :
        seed \in {1, 2}, batch_size \in {1, 2}}

ShardsInit ==
    /\ network \in RetrainNetworks
    /\ optimizer \in Optimizers
    /\ dataset \in ShardedDatasets
    /\ opc = "idle"
    /\ frame = NoCall
    /\ tasks = <<>>
    /\ oret = NoRet
    /\ matrix = NoMatrix
    /\ vpc = "off"
    /\ call = NoCall
    /\ ret = NoRet
    /\ LayersOff

SpecShards == ShardsInit /\ [][TrainNext]_vars

\* network.feedforward of the i-th sample of the dataset alone
PredictionOf(net, ds, i) ==
    feedforward_dataset([ds EXCEPT !.xs = <<ds.xs[i]>>, !.ys = <<ds.ys[i]>>,
                                   !.batch_size = 1], net)

\* The shards of the dataset are disjoint and their union is the dataset.
SplitKeepsContract(ds, n) ==
    LET pairs(d) == {<<d.xs[i], d.ys[i]>> : i \in 1..len(d)}
    IN  /\ Len(split(ds, n)) = n
        /\ SeqSum([k \in 1..n |-> len(split(ds, n)[k])]) = len(ds)
        /\ UNION {pairs(split(ds, n)[k]) : k \in 1..n} = pairs(ds)

\* C21: when total_cost or performance returns from a pass over the worker pool,
\* on a dataset whose split keeps the contract, the i-th prediction is the
\* network's prediction for the i-th sample, the one paired with dataset.ys[i],
\* and there is one prediction per sample.
C21_PredictionsInDatasetOrder ==
    (/\ opc = "done"
     /\ frame.fn \in {"total_cost", "performance"}
     /\ optimizer.workers
     /\ oret.ok
     /\ SplitKeepsContract(dataset, optimizer.num_workers))
        => /\ Len(frame.y_hats) = len(dataset)
           /\ \A i \in 1..len(dataset) :
                PredictionOf(network, dataset, i) = Ok(<<frame.y_hats[i]>>)

-----------------------------------------------------------------------------
(* One call of _sgd_backpropagation, step by step: the forward pass, the initial
   error signal, and then for each layer from the last to the first the call of
   its derived_params and, unless it is the first, of its backpropagate followed
   by the Jacobian product and the clipping for the layer before it.  frame.handed
   records every error signal a layer was given. *)

\* Networks of two FullyConnected layers with one output each, so that the norm
\* of every error signal is a rational number.
BackwardNetworks ==
    {Network(<<WithActivation(FullyConnected(<<1, 1, 2>>, <<1, 1, 1>>, first).val, act),
               WithActivation(FullyConnected(<<1, 1, 1>>, <<1, 1, 1>>, last).val, "Identity")>>,
             "Quadratic") :
        first \in {0, 1}, act \in {"ReLU", "Identity"}, last \in {0, 1, 2}}

\* Clip thresholds for a network.  Where the last layer's weight is 1 or -1 the
\* signal does not grow on its way back; where it is -2 the threshold is above
\* every initial signal and below some of the signals of the first layer.  So at
\* most one clipping of a pass rescales a signal that is not zero, and the
\* fractions stay within TLC's integers (EPSILON has the denominator 10^7).
ClipThresholds(net) ==
    IF net.hidden_layers[2].weight.data[1] \in {REAL_TYPE(1), REAL_TYPE(0 - 1)}
    THEN {REAL_TYPE(0), REAL_TYPE(1), Fraction(5, 2), REAL_TYPE(5), finfo_max}
    ELSE {REAL_TYPE(0), REAL_TYPE(7), finfo_max}

BackwardInit ==
    /\ network \in BackwardNetworks
    /\ optimizer \in {StochasticGradientDescent(t, REAL_TYPE(0), REAL_TYPE(1), REAL_TYPE(0), 0) :
                         t \in ClipThresholds(network)}
    /\ dataset \in {Dataset(<<astype(NewArray(<<1, 2, 1>>, <<x1, 0>>, real_dtype))>>,
                            <<astype(NewArray(<<1, 1, 1>>, <<y>>, real_dtype))>>, 1) :
                       x1 \in {0, 1}, y \in {0, 1}}
    /\ opc = "idle"
    /\ frame = NoCall
    /\ tasks = <<>>
    /\ oret = NoRet
    /\ matrix = NoMatrix
    /\ vpc = "off"
    /\ call = NoCall
    /\ ret = NoRet
    /\ LayersOff

\* The step of the pass failed: the exception leaves _sgd_backpropagation.
BackwardRaise(r) ==
    /\ opc' = "done"
    /\ oret' = r
    /\ frame' = frame

\* _sgd_backpropagation(x, y, network, gradient_clip_norm) is called on the sample
\* of the dataset, and the forward pass stores the activations and the weighted
\* inputs.
CallBackpropagation ==
    /\ opc = "idle"
    /\ LET Forward(fwd) ==
               IF ~fwd.ok THEN BackwardRaise(fwd)
               ELSE /\ opc' = "cost"
                    /\ oret' = oret
                    /\ frame' = [fn |-> "_sgd_backpropagation", x |-> dataset.xs[1],
                                 y |-> dataset.ys[1], fwd |-> fwd.val,
                                 i |-> Len(network.hidden_layers), delta |-> None,
                                 dels |-> [del_bs |-> <<>>, del_ws |-> <<>>],
                                 handed |-> <<>>]
       IN  Forward(forward_pass(network, 1, <<dataset.xs[1]>>, <<>>))
    /\ UNCHANGED <<network, optimizer, dataset, tasks, vecVars, layerVars>>

\* The initial error signal: the cost's derivative through the last layer's
\* activation, clipped, in the shape of the last layer's output.
InitialDelta ==
    /\ opc = "cost"
    /\ LET Signal(delta) ==
               IF ~delta.ok THEN BackwardRaise(delta)
               ELSE /\ opc' = "params"
                    /\ oret' = oret
                    /\ frame' = [frame EXCEPT !.delta = delta.val]
       IN  Signal(Bind(Quadratic_derived_eval(vector_2d(frame.fwd.as_[frame.i + 1]).val,
                                              vector_2d(frame.y).val),
                       LAMBDA dCda : layer_delta(network, frame.fwd, frame.i, dCda,
                                                 optimizer.gradient_clip_norm)))
    /\ UNCHANGED <<network, optimizer, dataset, tasks, vecVars, layerVars>>

\* layer.derived_params(as_[layer_idx], delta) of the current layer; after the
\* first layer's the gradients are returned.
DerivedParams ==
    /\ opc = "params"
    /\ LET Derived(d) ==
               IF ~d.ok THEN BackwardRaise(d)
               ELSE /\ frame' = [frame EXCEPT
                                    !.dels = prepend_gradients(d.val, @),
                                    !.handed = Append(@, [layer |-> frame.i,
                                                          to |-> "derived_params",
                                                          delta |-> frame.delta])]
                    /\ opc' = IF frame.i = 1 THEN "done" ELSE "back"
                    /\ oret' = IF frame.i = 1 THEN Ok(prepend_gradients(d.val, frame.dels))
                               ELSE oret
       IN  Derived(layer_derived_params(network.hidden_layers[frame.i],
                                        frame.fwd.as_[frame.i], frame.delta))
    /\ UNCHANGED <<network, optimizer, dataset, tasks, vecVars, layerVars>>

\* next_layer.backpropagate(as_[layer_idx + 1], delta), then the Jacobian product,
\* the clipping and the reshape that make the error signal of the layer before.
Backpropagate ==
    /\ opc = "back"
    /\ LET Passed(next) ==
               IF ~next.ok THEN BackwardRaise(next)
               ELSE /\ frame' = [frame EXCEPT
                                    !.i = @ - 1,
                                    !.delta = next.val,
                                    !.handed = Append(@, [layer |-> frame.i,
                                                          to |-> "backpropagate",
                                                          delta |-> frame.delta])]
                    /\ opc' = "params"
                    /\ oret' = oret
       IN  Passed(Bind(layer_backpropagate(network.hidden_layers[frame.i],
                                           frame.fwd.as_[frame.i], frame.delta),
                       LAMBDA back : layer_delta(network, frame.fwd, frame.i - 1, back,
                                                 optimizer.gradient_clip_norm)))
    /\ UNCHANGED <<network, optimizer, dataset, tasks, vecVars, layerVars>>

BackwardNext ==
    \/ CallBackpropagation
    \/ InitialDelta
    \/ DerivedParams
    \/ Backpropagate
    \/ TrainReturn

SpecBackward == BackwardInit /\ [][BackwardNext]_vars

\* The largest and every other column norm of the error signal is at most t.
WithinNorm(delta, t) ==
    \A n \in {linalg_norm(vector_2d(delta).val)} :
        \A q \in 1..Len(n.data) : RealGeq(t, n.data[q])

\* The error signal that reaches the output of layer i, before the clipping, in a
\* pass whose later layers were given the signals in `handed`.
Unclipped(net, f, i) ==
    IF i = Len(net.hidden_layers)
    THEN Bind(Quadratic_derived_eval(vector_2d(f.fwd.as_[i + 1]).val, vector_2d(f.y).val),
              LAMBDA dCda : jacobian_mul(activation(net.hidden_layers[i]),
                                         vector_2d(f.fwd.zs[i]).val, dCda))
    ELSE Bind(layer_backpropagate(net.hidden_layers[i + 1], f.fwd.as_[i + 1],
                                  (CHOOSE h \in {f.handed[k] : k \in 1..Len(f.handed)} :
                                      h.layer = i + 1 /\ h.to = "backpropagate").delta),
              LAMBDA back : jacobian_mul(activation(net.hidden_layers[i]),
                                         vector_2d(f.fwd.zs[i]).val, vector_2d(back).val))

InBackwardPass == opc \in {"cost", "params", "back", "done"} /\ frame.fn = "_sgd_backpropagation"

\* C22: in one backward pass of _sgd_backpropagation every error signal handed to
\* a layer's derived_params or backpropagate has been through the clip: its column
\* norms are at most the threshold, it is the signal that reached the layer where
\* that was below the threshold, and both calls of a layer get the same signal;
\* when the pass returns, every layer was handed one, and the gradients are those
\* of _sgd_backpropagation.
C22_ClippedAtEveryLayer ==
    InBackwardPass =>
        /\ \A k \in 1..Len(frame.handed) :
            \A h \in {frame.handed[k]} :
                /\ WithinNorm(h.delta, optimizer.gradient_clip_norm)
                /\ \A u \in {Unclipped(network, frame, h.layer)} :
                     /\ u.ok
                     /\ (~WithinNorm(u.val, optimizer.gradient_clip_norm)
                            => vector_2d(h.delta).val # u.val)
                     /\ (\A q \in 1..Len(linalg_norm(u.val).data) :
                            RealLess(linalg_norm(u.val).data[q], optimizer.gradient_clip_norm))
                            => vector_2d(h.delta).val = u.val
                /\ \A j \in 1..Len(frame.handed) :
                     frame.handed[j].layer = h.layer => frame.handed[j].delta = h.delta
        /\ (opc = "done" /\ oret.ok) =>
            /\ [k \in 1..Len(frame.handed) |-> <<frame.handed[k].layer, frame.handed[k].to>>]
                   = <<<<2, "derived_params">>, <<2, "backpropagate">>, <<1, "derived_params">>>>
            /\ oret = sgd_backpropagation(frame.x, frame.y, network,
                                          optimizer.gradient_clip_norm)

\* A pass returned in which the signal of the last layer was below the threshold 7
\* and handed on as it was, and the signal of the first layer, of norm 12, was
\* rescaled before the first layer's derived_params got it.
C22_Witness ==
    /\ opc = "done"
    /\ oret.ok
    /\ frame.fn = "_sgd_backpropagation"
    /\ optimizer.gradient_clip_norm = REAL_TYPE(7)
    /\ Len(frame.handed) = 3
    /\ frame.handed[1].delta.data = <<REAL_TYPE(0 - 6)>>
    /\ Unclipped(network, frame, 1).val.data = <<REAL_TYPE(12)>>
    /\ frame.handed[3].layer = 1
    /\ frame.handed[3].delta.data # <<REAL_TYPE(12)>>
    /\ RealLess(frame.handed[3].delta.data[1], REAL_TYPE(7))
    /\ RealLess(REAL_TYPE(6), frame.handed[3].delta.data[1])

=============================================================================
